---- MODULE Spec2Model ----
(***************************************************************************)
(* A model of vcsaturninus/builder: the contextual path map (settings.py)  *)
(* and the parts of the build driver (builder.py, sdk.py) that use it.     *)
(*                                                                         *)
(* A path is a sequence of tokens; the token "/" is the path separator,    *)
(* every other token is a run of characters that does not end in "/".      *)
(* String concatenation is \o.                                             *)
(*                                                                         *)
(* Pathmap objects are held in a small heap: `tables` holds the dict       *)
(* objects bound to the attribute `contexts`, `views` holds the Pathmap    *)
(* objects themselves (views[1] is the object made by Pathmap(), the       *)
(* others are made by clone()), each with its `context` attribute and the  *)
(* index of the dict its `contexts` attribute refers to.                   *)
(***************************************************************************)
EXTENDS Naturals, Sequences, FiniteSets, TLC

VARIABLES
    tables,     \* heap of `contexts` dicts: context name -> label -> pathconf
    views,      \* Pathmap objects: [context, tbl]
    last,       \* the most recent call: its name, arguments and outcome
    main        \* the builder process: where it is, its environment and flags

vars == <<tables, views, last, main>>

\* ---------------------------------------------------------------- bounds

\* Pathmap objects made by clone() that are alive at one time.
MaxClones == 1

\* ----------------------------------------------------------- input domains

None == "None"
\* Names passed to add_context.
ContextNames == {"host", "container", "staging"}
\* Names passed where a context is expected: the registered ones, the
\* wildcard, and None (an unset current context).
AnyContext == ContextNames \cup {"all", None}
\* Labels registered and resolved.
Labels == {"basedir", "a", "b"}
\* Values of `relativeto`.
Parents == {None, "basedir", "a"}
\* Values of `path` given to set.
Fragments == {<<"x">>, <<"y", "/">>}
\* The basedir given to add_context for each context.
BasedirOf(context) ==
    CASE context = "host"      -> <<"/", "root">>
      [] context = "container" -> <<"/", "home", "/", "base">>
      [] OTHER                 -> <<"/", "stage">>
\* Values of the `context` argument of set: ';'-separated selectors.
Selectors ==
    { <<"host">>, <<"container">>, <<"all">>,
      <<"staging", ";", "container">>, <<"host", ";", "staging">> }

\* ------------------------------------------------------- values and outcomes

EmptyDict == [k \in {} |-> k]
Put(d, k, v) == [x \in (DOMAIN d) \cup {k} |-> IF x = k THEN v ELSE d[x]]

\* The outcome of a call: a returned value, the sentinel False, or a raised
\* exception (its class and what it reports).
Return(v)      == [kind |-> "return", val |-> v,    exc |-> "", what |-> ""]
ReturnFalse    == [kind |-> "false",  val |-> <<>>, exc |-> "", what |-> ""]
Raise(e, w)    == [kind |-> "raise",  val |-> <<>>, exc |-> e,  what |-> w]
ReturnNone     == Return(<<>>)

UnknownContext == Raise("LookupError", "Unknown context")
NoSuchPath     == Raise("LookupError", "No such path")
KeyError       == Raise("KeyError", "key")
RecursionError == Raise("RecursionError", "maximum recursion depth exceeded")

\* ------------------------------------------------------------------ utils

\* utils.ensure_dir_semantics: a directory path carries a trailing separator.
ensure_dir_semantics(path) ==
    IF Len(path) > 0 /\ path[Len(path)] = "/" THEN path ELSE Append(path, "/")

\* str.split(';'): the runs between separators, "" for an empty run.
RECURSIVE split(_)
split(s) ==
    IF \A i \in 1..Len(s) : s[i] # ";"
    THEN <<IF Len(s) = 0 THEN "" ELSE s[1]>>
    ELSE LET i == CHOOSE j \in 1..Len(s) :
                      s[j] = ";" /\ \A k \in 1..(j-1) : s[k] # ";"
         IN  <<IF i = 1 THEN "" ELSE s[1]>> \o split(SubSeq(s, i+1, Len(s)))

\* ---------------------------------------------------------------- Pathmap

\* The pathconf dict add_context writes (no 'isfile' key: .get('isfile') is
\* None, which reads as False).
BasedirConf(basedir) == [path |-> basedir, parent |-> None, isfile |-> FALSE]

\* Pathmap.add_context, on the dict `contexts`.
add_context_dict(contexts, context, basedir) ==
    Put(contexts, context, Put(EmptyDict, "basedir", BasedirConf(basedir)))

\* Pathmap.check_context: None when the check passes.
check_context(contexts, context) ==
    IF context # "all" /\ context \notin DOMAIN contexts
    THEN UnknownContext
    ELSE ReturnNone

\* get with the isfile test dropped: every fragment is directory-normalised.
RECURSIVE get_frames_always_dir(_, _, _, _, _)
get_frames_always_dir(contexts, context, label, nothrows, fuel) ==
    IF fuel = 0 THEN RecursionError
    ELSE IF check_context(contexts, context).kind = "raise"
    THEN check_context(contexts, context)
    ELSE IF context \notin DOMAIN contexts THEN KeyError
    ELSE IF label \notin DOMAIN contexts[context]
    THEN IF nothrows THEN ReturnFalse ELSE NoSuchPath
    ELSE LET pathconf == contexts[context][label]
             path     == ensure_dir_semantics(pathconf.path)
             parent   == pathconf.parent
         IN  IF parent # None
             THEN LET up == get_frames_always_dir(contexts, context, parent,
                                                  FALSE, fuel - 1)
                  IN  IF up.kind = "raise" THEN up ELSE Return(up.val \o path)
             ELSE Return(path)

\* Pathmap.get. A recursion deeper than the number of labels of the context
\* revisits a label, hence never ends in Python short of RecursionError:
\* `fuel` counts the frames left.
RECURSIVE get_frames(_, _, _, _, _)
get_frames(contexts, context, label, nothrows, fuel) ==
    IF fuel = 0 THEN RecursionError
    ELSE IF check_context(contexts, context).kind = "raise"
    THEN check_context(contexts, context)
    ELSE IF context \notin DOMAIN contexts THEN KeyError
    ELSE IF label \notin DOMAIN contexts[context]
    THEN IF nothrows THEN ReturnFalse ELSE NoSuchPath
    ELSE LET pathconf == contexts[context][label]
             path     == IF ~pathconf.isfile
                         THEN ensure_dir_semantics(pathconf.path)
                         ELSE pathconf.path
             parent   == pathconf.parent
         IN  IF parent # None
             THEN LET up == get_frames(contexts, context, parent, FALSE, fuel - 1)
                  IN  IF up.kind = "raise" THEN up ELSE Return(up.val \o path)
             ELSE Return(path)

Frames(contexts, context) ==
    IF context \in DOMAIN contexts
    THEN Cardinality(DOMAIN contexts[context]) + 1
    ELSE 1

get(contexts, context, label, nothrows) ==
    get_frames(contexts, context, label, nothrows, Frames(contexts, context))

\* The body of the inner loop of Pathmap.set: the pathconf written.
PathConf(path, relativeto, isfile) ==
    [path |-> path, parent |-> relativeto, isfile |-> isfile]

\* set that keeps the definition a label already has (first write wins).
set_one_keep(contexts, context, label, conf) ==
    [c \in DOMAIN contexts |->
        IF (context = "all" \/ c = context) /\ label \notin DOMAIN contexts[c]
        THEN Put(contexts[c], label, conf)
        ELSE contexts[c]]

\* set that takes every selector for the wildcard.
set_one_everywhere(contexts, context, label, conf) ==
    [c \in DOMAIN contexts |-> Put(contexts[c], label, conf)]

\* One iteration of the outer loop of Pathmap.set, after check_context passed.
set_one(contexts, context, label, conf) ==
    [c \in DOMAIN contexts |->
        IF context = "all" \/ c = context
        THEN Put(contexts[c], label, conf)
        ELSE contexts[c]]

\* set that handles only the first context of its list.
set_loop_first_only(contexts, listspec, i, label, conf) ==
    IF check_context(contexts, listspec[1]).kind = "raise"
    THEN [contexts |-> contexts, ret |-> check_context(contexts, listspec[1])]
    ELSE [contexts |-> set_one(contexts, listspec[1], label, conf),
          ret |-> ReturnNone]

\* Pathmap.set over listspec[i..]: the dict as left when the loop ends or
\* check_context raises, and the outcome.
RECURSIVE set_loop(_, _, _, _, _)
set_loop(contexts, listspec, i, label, conf) ==
    IF i > Len(listspec) THEN [contexts |-> contexts, ret |-> ReturnNone]
    ELSE IF check_context(contexts, listspec[i]).kind = "raise"
    THEN [contexts |-> contexts, ret |-> check_context(contexts, listspec[i])]
    ELSE set_loop(set_one(contexts, listspec[i], label, conf),
                  listspec, i + 1, label, conf)

set(contexts, context, label, path, relativeto, isfile) ==
    set_loop(contexts, split(context), 1, label, PathConf(path, relativeto, isfile))

\* Pathmap.set_current_context: the object after the call, and the outcome.
set_current_context(view, context) ==
    IF context = None \/ context = "all"
    THEN [view |-> view, ret |-> Raise("ValueError", "Invalid value for context")]
    ELSE [view |-> [view EXCEPT !.context = context], ret |-> ReturnNone]

\* Pathmap.get_current_context.
get_current_context(view) ==
    IF view.context = None
    THEN Raise("LookupError", "No current context")
    ELSE Return(<<view.context>>)

\* clone that pins the requested context on the object it is called on.
clone_pins_self(vs, v, context) ==
    Append([vs EXCEPT ![v].context =
                IF context # None THEN context ELSE vs[v].context],
           [context |-> IF context # None THEN context ELSE vs[v].context,
            tbl     |-> vs[v].tbl])

\* Pathmap.clone: the Pathmap objects after the call, the new one last.
clone(vs, v, context) ==
    Append(vs, [context |-> IF context # None THEN context ELSE vs[v].context,
                tbl     |-> vs[v].tbl])

\* Pathmap.__getattr__.
getattr(tbls, view, label) == get(tbls[view.tbl], view.context, label, FALSE)

\* -------------------------------------------------------- the API, as calls

\* The label a call broadcast, when it was a set('all', ...) that returned.
Broadcast(call) ==
    IF call.op = "set" /\ call.context = <<"all">> /\ call.ret.kind = "return"
    THEN call.label ELSE ""

NoConf == PathConf(<<>>, None, FALSE)

NoCall == [op |-> "init", view |-> 0, context |-> <<>>, label |-> "",
           conf |-> NoConf, nothrows |-> FALSE, ret |-> ReturnNone,
           after |-> "", rereg |-> FALSE]

\* A call record; `after` is the label the call before it broadcast.
Call(op, view, context, label, conf, nothrows, ret, rereg) ==
    [op |-> op, view |-> view, context |-> context, label |-> label,
     conf |-> conf, nothrows |-> nothrows, ret |-> ret,
     after |-> Broadcast(last), rereg |-> rereg]

\* The process state while the Pathmap is exercised on its own.
Idle == [pc |-> "idle"]

InitPathmap ==
    /\ tables = <<EmptyDict>>
    /\ views  = <<[context |-> None, tbl |-> 1]>>
    /\ last   = NoCall
    /\ main   = Idle

\* paths.add_context(context, basedir)
call_add_context(context) ==
    /\ tables' = [tables EXCEPT ![views[1].tbl] =
                     add_context_dict(@, context, BasedirOf(context))]
    /\ last' = Call("add_context", 1, <<context>>, "basedir",
                    BasedirConf(BasedirOf(context)), FALSE, ReturnNone,
                    context \in DOMAIN tables[views[1].tbl])
    /\ UNCHANGED <<views, main>>

\* Whether set(context, label, conf) meets a registered label with another
\* definition in a context it names.
Reregisters(contexts, context, label, conf) ==
    \E c \in DOMAIN contexts :
        /\ \E i \in 1..Len(split(context)) : split(context)[i] \in {c, "all"}
        /\ label \in DOMAIN contexts[c]
        /\ contexts[c][label] # conf

\* paths.set(context, label, path, relativeto, isfile)
call_set(context, label, path, relativeto, isfile) ==
    LET r == set(tables[views[1].tbl], context, label, path, relativeto, isfile)
    IN  /\ tables' = [tables EXCEPT ![views[1].tbl] = r.contexts]
        /\ last' = Call("set", 1, context, label,
                        PathConf(path, relativeto, isfile), FALSE, r.ret,
                        Reregisters(tables[views[1].tbl], context, label,
                                    PathConf(path, relativeto, isfile)))
        /\ UNCHANGED <<views, main>>

\* paths.set_current_context(context)
call_set_current_context(context) ==
    LET r == set_current_context(views[1], context)
    IN  /\ views' = [views EXCEPT ![1] = r.view]
        /\ last' = Call("set_current_context", 1, <<context>>, "", NoConf,
                        FALSE, r.ret, FALSE)
        /\ UNCHANGED <<tables, main>>

\* v.get_current_context()
call_get_current_context(v) ==
    /\ last' = Call("get_current_context", v, <<>>, "", NoConf, FALSE,
                    get_current_context(views[v]), FALSE)
    /\ UNCHANGED <<tables, views, main>>

\* v.get(context, label, nothrows)
call_get(v, context, label, nothrows) ==
    /\ last' = Call("get", v, <<context>>, label, NoConf, nothrows,
                    get(tables[views[v].tbl], context, label, nothrows), FALSE)
    /\ UNCHANGED <<tables, views, main>>

\* v.<label>
call_getattr(v, label) ==
    /\ last' = Call("getattr", v, <<views[v].context>>, label, NoConf, FALSE,
                    getattr(tables, views[v], label), FALSE)
    /\ UNCHANGED <<tables, views, main>>

\* v.clone(context)
call_clone(v, context) ==
    /\ Len(views) < 1 + MaxClones
    /\ views' = clone(views, v, context)
    /\ last' = Call("clone", v, <<context>>, "", NoConf, FALSE,
                    Return(<<"view">>), FALSE)
    /\ UNCHANGED <<tables, main>>

\* A clone goes out of scope.
drop_clone ==
    /\ Len(views) > 1
    /\ views' = SubSeq(views, 1, Len(views) - 1)
    /\ last' = Call("del", Len(views), <<>>, "", NoConf, FALSE, ReturnNone, FALSE)
    /\ UNCHANGED <<tables, main>>

\* ------------------------------------------------- the label table of one context
\* Spec: every table one context can hold over Labels, Fragments and Parents,
\* built by add_context and set and read by get.  "container" is never
\* registered here.

Next ==
    \/ call_add_context("host")
    \/ \E l \in Labels, p \in Fragments, r \in Parents, f \in BOOLEAN :
          call_set(<<"host">>, l, p, r, f)
    \/ \E c \in {"host", "container", "all"}, l \in Labels, n \in BOOLEAN :
          call_get(1, c, l, n)

Spec == InitPathmap /\ [][Next]_vars

\* --------------------------------------------------- registrations across contexts
\* SpecFrame: three contexts, one label besides basedir, every selector.

FrameLabels    == {"a"}
FrameParents   == {None, "basedir"}

NextFrame ==
    \/ \E c \in ContextNames : call_add_context(c)
    \/ \E s \in Selectors, l \in FrameLabels, p \in Fragments, r \in FrameParents :
          call_set(s, l, p, r, FALSE)
    \/ \E c \in ContextNames \cup {"all"}, l \in FrameLabels \cup {"basedir"} :
          call_get(1, c, l, FALSE)

SpecFrame == InitPathmap /\ [][NextFrame]_vars

\* ------------------------------------------------------------ views and clones
\* SpecViews: the current context, clones, and lookups through them.

ViewContexts == {"host", "container"}

NextViews ==
    \/ \E c \in ViewContexts : call_add_context(c)
    \/ \E s \in {<<"host">>, <<"all">>}, p \in Fragments :
          call_set(s, "a", p, "basedir", FALSE)
    \/ \E c \in AnyContext : call_set_current_context(c)
    \/ \E v \in 1..Len(views) : call_get_current_context(v)
    \/ \E v \in 1..Len(views), c \in ViewContexts, l \in {"a", "basedir"} :
          call_get(v, c, l, FALSE)
    \/ \E v \in 1..Len(views), l \in {"a", "basedir"} : call_getattr(v, l)
    \/ \E v \in 1..Len(views), c \in AnyContext : call_clone(v, c)
    \/ drop_clone

SpecViews == InitPathmap /\ [][NextViews]_vars

\* ---------------------------------------------------------------- set_paths

\* utils.get_project_root(): the directory the builder lives in.
ProjectRoot == <<"/project">>

\* A registration of set_paths: the arguments of one paths.set call.  `path`
\* is the literal given, or, with `of` set, paths.get(of, path) at that point.
Reg(context, label, path, relativeto, isfile) ==
    [context |-> context, label |-> label, path |-> <<path>>, of |-> None,
     relativeto |-> relativeto, isfile |-> isfile]
RegGet(context, label, of, oflabel) ==
    [context |-> context, label |-> label, path |-> <<oflabel>>, of |-> of,
     relativeto |-> None, isfile |-> FALSE]

\* The paths.set calls of set_paths, in order.
Registrations(target) == <<
    Reg(<<"container">>, "home", "/home/dev", None, FALSE),
    Reg(<<"all">>, "tmpdir", ".tmp", "basedir", FALSE),
    Reg(<<"all">>, "specs", "spec", "basedir", FALSE),
    Reg(<<"all">>, "tgroot", "targets", "specs", FALSE),
    Reg(<<"all">>, "target", target, "tgroot", FALSE),
    Reg(<<"all">>, "tgspec", target \o "_spec.json", "target", TRUE),
    Reg(<<"all">>, "schemas", "json_schema", "specs", FALSE),
    Reg(<<"all">>, "steps_dir", "steps", "specs", FALSE),
    Reg(<<"all">>, "common", "common", "tgroot", FALSE),
    Reg(<<"host">>, "outdir", "out", "basedir", FALSE),
    Reg(<<"container">>, "outdir", "out", "home", FALSE),
    RegGet(<<"container">>, "sdk_path", "container", "home"),
    Reg(<<"all">>, "pkg_outdir", "package", "outdir", FALSE),
    Reg(<<"all">>, "pkg_outdir", "package", "outdir", FALSE),
    Reg(<<"host">>, "timestamp", "timestamp", "tmpdir", TRUE),
    Reg(<<"all">>, "automated_build_steps", "automated_build.json", "steps_dir", TRUE),
    Reg(<<"all">>, "dev_build_steps", "dev_build.json", "steps_dir", TRUE),
    Reg(<<"host">>, "buildlog", "build.log", "tmpdir", TRUE),
    Reg(<<"all">>, "env_defaults", "specs/environment.json", "common", TRUE),
    Reg(<<"host">>, "devconfig", "developer.json", "basedir", TRUE),
    Reg(<<"host">>, "sdk_path", ".", "basedir", FALSE),
    Reg(<<"host">>, "depends", "depends", "specs", FALSE),
    Reg(<<"host">>, "common_scripts", "scripts", "common", FALSE),
    Reg(<<"host">>, "common_hooks", "hooks", "common_scripts", FALSE),
    Reg(<<"host">>, "common_files", "files", "common", FALSE),
    Reg(<<"host">>, "target_scripts", "scripts", "target", FALSE),
    Reg(<<"host">>, "target_hooks", "hooks", "target_scripts", FALSE),
    Reg(<<"host">>, "target_files", "files", "target", FALSE),
    RegGet(<<"container">>, "filestore", "container", "basedir"),
    RegGet(<<"host">>, "filestore", "staging", "basedir"),
    RegGet(<<"host">>, "staging", "staging", "basedir"),
    Reg(<<"all">>, "system_configs", "files/system_configs", "filestore", FALSE),
    Reg(<<"all">>, "sdk_configs", "files/sdk_configs", "filestore", FALSE),
    Reg(<<"staging", ";", "container">>, "files", "files", "basedir", FALSE),
    Reg(<<"staging", ";", "container">>, "scripts", "scripts", "basedir", FALSE),
    Reg(<<"staging", ";", "container">>, "hooks", "hooks", "scripts", FALSE),
    Reg(<<"staging", ";", "container">>, "depends", "depends", "basedir", FALSE) >>

\* The registrations regs[i..] applied in order to `contexts`.
RECURSIVE register(_, _, _)
register(contexts, regs, i) ==
    IF i > Len(regs) THEN contexts
    ELSE LET r == regs[i]
             path == IF r.of = None THEN r.path
                     ELSE get(contexts, r.of, r.path[1], FALSE).val
             done == set(contexts, r.context, r.label, path, r.relativeto,
                         r.isfile)
         IN  IF done.ret.kind = "raise" THEN done.contexts
             ELSE register(done.contexts, regs, i + 1)

\* settings.set_paths: the Pathmap it returns, as its dict and its object.
set_paths(target, inside) ==
    LET host      == add_context_dict(EmptyDict, "host", ProjectRoot)
        container == add_context_dict(host, "container", <<"/home/dev/base">>)
        staging   == add_context_dict(container, "staging",
                         get(container, "host", "basedir", FALSE).val
                             \o <<"/staging">>)
    IN  [contexts |-> register(staging, Registrations(target), 1),
         view     |-> set_current_context([context |-> None, tbl |-> 1],
                          IF inside THEN "container" ELSE "host").view]

\* ------------------------------------------------- path lookups of the build
\* What each step of the build asks of the Pathmap, in the order it asks.
\* View 1 is self.paths; a clone a method makes is the last view while the
\* method runs and is gone when it returns.

Attr(view, label)  == [op |-> "attr", view |-> view, context |-> None,
                       label |-> label, nothrows |-> FALSE]
Get(context, label, nothrows) ==
                      [op |-> "get", view |-> 1, context |-> context,
                       label |-> label, nothrows |-> nothrows]
Clone(context)     == [op |-> "clone", view |-> 1, context |-> context,
                       label |-> "", nothrows |-> FALSE]
Current            == [op |-> "current", view |-> 1, context |-> None,
                       label |-> "", nothrows |-> FALSE]

\* One lookup: the outcome of the Pathmap call it makes.
lookup(tbls, vs, o) ==
    CASE o.op = "attr"    -> getattr(tbls, vs[o.view], o.label)
      [] o.op = "get"     -> get(tbls[vs[1].tbl], o.context, o.label, o.nothrows)
      [] o.op = "current" -> get_current_context(vs[1])
      [] OTHER            -> ReturnNone

\* The views after the clones among ops[1..n] are made, in order.
RECURSIVE clones(_, _, _, _)
clones(vs, ops, i, n) ==
    IF i > n THEN vs
    ELSE IF ops[i].op = "clone"
    THEN clones(clone(vs, 1, ops[i].context), ops, i + 1, n)
    ELSE clones(vs, ops, i + 1, n)

IsLookup(o) == o.op # "clone"

\* The lookups `ops` made in order; the first exception ends them.
run_lookups(tbls, vs, ops) ==
    LET all     == clones(vs, ops, 1, Len(ops))
        results == [i \in 1..Len(ops) |->
                       IF IsLookup(ops[i]) THEN lookup(tbls, all, ops[i])
                       ELSE ReturnNone]
        raised  == {i \in 1..Len(ops) : results[i].kind = "raise"}
        first   == CHOOSE i \in raised : \A j \in raised : i <= j
        made    == SelectSeq([i \in 1..Len(ops) |-> [o |-> ops[i], r |-> results[i]]],
                             LAMBDA e : IsLookup(e.o))
    IN  IF raised = {}
        THEN [views |-> all,
              ret   |-> Return([i \in 1..Len(made) |-> made[i].r.val])]
        ELSE [views |-> clones(vs, ops, 1, first), ret |-> results[first]]

\* Concrete_sdk.set_start_timestamp / set_end_timestamp.
timestamp_lookups(tbls, vs) ==
    <<Current>> \o
    IF vs[1].context # None
    THEN <<Get(vs[1].context, "timestamp", TRUE)>> \o
         (IF get(tbls[vs[1].tbl], vs[1].context, "timestamp", TRUE).kind = "return"
          THEN <<Attr(1, "timestamp")>> ELSE <<>>)
    ELSE <<>>

\* Concrete_sdk.__init__
init_lookups(tbls, vs) == <<Attr(1, "sdk_path")>> \o timestamp_lookups(tbls, vs)

\* Concrete_sdk.get_env_vars
get_env_vars_lookups ==
    << Clone("container"), Attr(2, "outdir"), Get("container", "pkg_outdir", FALSE),
       Attr(2, "basedir"), Attr(2, "files"), Attr(2, "sdk_path") >>

\* Concrete_sdk.get_mounts
get_mounts_lookups(build_type) ==
    IF build_type # "dev" THEN <<>>
    ELSE << Get("container", "home", FALSE), Get("host", "staging", FALSE),
            Get("container", "basedir", FALSE) >>

\* Concrete_sdk.build_only_firmware
build_only_firmware_lookups(build_type) ==
    get_env_vars_lookups \o get_mounts_lookups(build_type)
        \o <<Get("container", "basedir", FALSE)>>

\* Concrete_sdk.build_single_packages
build_single_packages_lookups(build_type) ==
    get_env_vars_lookups \o get_mounts_lookups(build_type)
        \o <<Get("container", "hooks", FALSE)>>

\* Concrete_sdk.get_interactive_container
get_interactive_container_lookups(build_type) ==
    get_env_vars_lookups \o get_mounts_lookups(build_type)

\* Concrete_sdk.populate_staging_dir
populate_staging_dir_lookups ==
    << Clone("staging"), Attr(2, "basedir"), Attr(2, "basedir"),
       Attr(1, "depends"), Attr(2, "depends"),
       Attr(1, "schemas"), Attr(2, "schemas"),
       Attr(1, "steps_dir"), Attr(2, "steps_dir"),
       Attr(1, "tgspec"), Attr(2, "target"),
       Attr(1, "env_defaults"), Attr(2, "common"),
       Attr(1, "common_hooks"), Attr(2, "hooks"),
       Attr(1, "common_files"), Attr(2, "files"),
       Attr(1, "common_files"), Attr(2, "files"),
       Attr(1, "common_scripts"), Attr(2, "scripts"),
       Attr(1, "common_scripts"), Attr(2, "scripts"),
       Attr(1, "common_scripts"), Attr(2, "scripts"),
       Attr(1, "common_hooks"), Attr(2, "hooks"),
       Attr(1, "common_hooks"), Attr(2, "hooks"),
       Attr(1, "common_hooks"), Attr(2, "hooks"),
       Attr(1, "common_hooks"), Attr(2, "hooks"),
       Attr(1, "common_files"), Attr(2, "files"),
       Attr(1, "common_files"), Attr(2, "files"),
       Attr(1, "common_scripts"), Attr(2, "scripts"),
       Attr(1, "common_scripts"), Attr(2, "scripts"),
       Attr(1, "common_scripts"), Attr(2, "scripts"),
       Attr(1, "common_hooks"), Attr(2, "scripts"),
       Attr(1, "common_hooks"), Attr(2, "scripts"),
       Attr(1, "common_hooks"), Attr(2, "scripts"),
       Attr(1, "common_hooks"), Attr(2, "scripts"),
       Attr(1, "target_files"), Attr(2, "basedir"),
       Attr(1, "target_scripts"), Attr(2, "basedir"),
       Attr(2, "basedir") >>

\* Concrete_sdk.build_container_image
build_container_image_lookups ==
    << Get("container", "outdir", FALSE), Attr(1, "basedir") >>

\* Concrete_sdk.run_hook
run_hook_lookups == <<Attr(1, "hooks")>> \o get_env_vars_lookups

\* Concrete_sdk.build: the three stages of run_staged_build, each one
\* run_scripts, or build_only_firmware.
build_lookups(build_type) ==
    IF build_type = "automated"
    THEN get_env_vars_lookups \o get_env_vars_lookups \o get_env_vars_lookups
    ELSE build_only_firmware_lookups(build_type)

\* The labels the builder passes as source_path, None for the default.
SourceLabels == {None, "outdir", "pkg_outdir"}

\* Concrete_sdk.retrieve_build_artifacts, after the builder's lookup of the
\* source_path it passes.
retrieve_build_artifacts_lookups(tbls, vs, source) ==
    (IF source # None THEN <<Get("container", source, FALSE)>> ELSE <<>>)
        \o <<Attr(1, "outdir")>>
        \o (IF source = None THEN <<Get("container", "outdir", FALSE)>> ELSE <<>>)
        \o timestamp_lookups(tbls, vs)
        \o << Attr(1, "buildlog"), Attr(1, "timestamp") >>

\* builder: the full build asks for the current context and dispatches on it.
dispatch_lookups == <<Current>>

\* ------------------------------------------------------ the build, as steps
\* SpecBuild: the builder sets the paths up, constructs the Sdk object and
\* then takes the steps of the build, each a method of the Sdk object.

BuildTypes  == {"automated", "dev"}
TargetNames == {"rpi4b", "x86"}

InitBuild ==
    /\ tables = <<EmptyDict>>
    /\ views  = <<[context |-> None, tbl |-> 1]>>
    /\ last   = NoCall
    /\ main \in [pc : {"start"}, inside : BOOLEAN, build_type : BuildTypes,
                 target : TargetNames]

\* paths = settings.set_paths(args.target)
main_set_paths ==
    /\ main.pc = "start"
    /\ tables' = <<set_paths(main.target, main.inside).contexts>>
    /\ views'  = <<set_paths(main.target, main.inside).view>>
    /\ last'   = Call("set_paths", 1, <<>>, "", NoConf, FALSE, ReturnNone, FALSE)
    /\ main'   = [main EXCEPT !.pc = "paths"]

\* A step that makes the lookups `ops` and leaves the builder at `pc`; an
\* exception ends the process.
Step(name, ops, pc) ==
    LET r == run_lookups(tables, views, ops)
    IN  /\ views' = SubSeq(r.views, 1, 1)
        /\ last'  = Call(name, 1, <<>>, "", NoConf, FALSE, r.ret, FALSE)
        /\ main'  = [main EXCEPT !.pc = IF r.ret.kind = "raise" THEN "failed"
                                        ELSE pc]
        /\ UNCHANGED tables

\* sdk = sdk.get_sdk_for(target)(tgspec, paths, confvars)
sdk_init ==
    /\ main.pc = "paths"
    /\ Step("__init__", init_lookups(tables, views), "ready")

sdk_get_env_vars ==
    /\ main.pc = "ready"
    /\ Step("get_env_vars", get_env_vars_lookups, "ready")

sdk_get_mounts ==
    /\ main.pc = "ready"
    /\ Step("get_mounts", get_mounts_lookups(main.build_type), "ready")

sdk_build_only_firmware ==
    /\ main.pc = "ready"
    /\ Step("build_only_firmware", build_only_firmware_lookups(main.build_type),
            "ready")

sdk_build_single_packages ==
    /\ main.pc = "ready"
    /\ Step("build_single_packages",
            build_single_packages_lookups(main.build_type), "ready")

sdk_get_interactive_container ==
    /\ main.pc = "ready"
    /\ Step("get_interactive_container",
            get_interactive_container_lookups(main.build_type), "ready")

sdk_populate_staging_dir ==
    /\ main.pc = "ready"
    /\ Step("populate_staging_dir", populate_staging_dir_lookups, "ready")

sdk_retrieve_build_artifacts ==
    /\ main.pc = "ready"
    /\ \E source \in SourceLabels :
           Step("retrieve_build_artifacts",
                retrieve_build_artifacts_lookups(tables, views, source), "ready")

sdk_build_container_image ==
    /\ main.pc = "ready"
    /\ Step("build_container_image", build_container_image_lookups, "ready")

sdk_run_hook ==
    /\ main.pc = "ready"
    /\ Step("run_hook", run_hook_lookups, "ready")

sdk_build ==
    /\ main.pc = "ready"
    /\ Step("build", build_lookups(main.build_type), "ready")

main_dispatch_tasks ==
    /\ main.pc = "ready"
    /\ Step("dispatch_tasks", dispatch_lookups, "ready")

NextBuild ==
    \/ main_set_paths
    \/ sdk_init
    \/ sdk_get_env_vars
    \/ sdk_get_mounts
    \/ sdk_build_only_firmware
    \/ sdk_build_single_packages
    \/ sdk_get_interactive_container
    \/ sdk_populate_staging_dir
    \/ sdk_retrieve_build_artifacts
    \/ sdk_build_container_image
    \/ sdk_run_hook
    \/ sdk_build
    \/ main_dispatch_tasks

SpecBuild == InitBuild /\ [][NextBuild]_vars

\* ================================================================== claims

\* The table of the Pathmap made by Pathmap().
Contexts == tables[views[1].tbl]

\* The labels from `label` upwards along registered parents, at most n of them.
RECURSIVE ChainOf(_, _, _)
ChainOf(paths, label, n) ==
    IF n = 0 \/ label \notin DOMAIN paths THEN <<>>
    ELSE <<label>> \o (IF paths[label].parent = None THEN <<>>
                       ELSE ChainOf(paths, paths[label].parent, n - 1))

Chain(paths, label) == ChainOf(paths, label, Cardinality(DOMAIN paths) + 1)

\* No label occurs twice on the chain.
NoCycle(paths, label) ==
    LET chain == Chain(paths, label)
    IN  \A i, j \in 1..Len(chain) : i # j => chain[i] # chain[j]

\* The chain is free of cycles and ends at a registered label with no parent.
Rooted(paths, label) ==
    /\ label \in DOMAIN paths
    /\ NoCycle(paths, label)
    /\ LET chain == Chain(paths, label)
       IN  paths[chain[Len(chain)]].parent = None

\* The fragment a node contributes.
Fragment(conf) ==
    IF conf.isfile THEN conf.path ELSE ensure_dir_semantics(conf.path)

\* The fragments of chain[i..], the last (the root) first.
RECURSIVE JoinUp(_, _, _)
JoinUp(paths, chain, i) ==
    IF i > Len(chain) THEN <<>>
    ELSE JoinUp(paths, chain, i + 1) \o Fragment(paths[chain[i]])

RootFirst(paths, label) == JoinUp(paths, Chain(paths, label), 1)

\* C1 as stated: for every registered context C and registered label L whose
\* parent chain in C has no cycle, get(C, L) returns the fragments along the
\* chain, root first, each directory-normalised unless flagged isfile.
C1_NoCycleResolves ==
    \A C \in DOMAIN Contexts : \A L \in DOMAIN Contexts[C] :
        NoCycle(Contexts[C], L) =>
            get(Contexts, C, L, FALSE) = Return(RootFirst(Contexts[C], L))

\* C1 amended: the same, for every label whose chain has no cycle and whose
\* every parent label is registered in C (the chain ends at a parentless node).
C1_RootedResolves ==
    \A C \in DOMAIN Contexts : \A L \in DOMAIN Contexts[C] :
        Rooted(Contexts[C], L) =>
            get(Contexts, C, L, FALSE) = Return(RootFirst(Contexts[C], L))

\* A get that returned the path of a label two parents below its root, over a
\* file fragment and a directory fragment.
C1_Witness ==
    /\ last.op = "get" /\ last.ret.kind = "return"
    /\ last.context[1] \in DOMAIN Contexts
    /\ Rooted(Contexts[last.context[1]], last.label)
    /\ Len(Chain(Contexts[last.context[1]], last.label)) = 3
    /\ Contexts[last.context[1]][last.label].isfile
    /\ \E i \in 2..3 :
         ~Contexts[last.context[1]][Chain(Contexts[last.context[1]], last.label)[i]].isfile
    /\ last.ret.val = RootFirst(Contexts[last.context[1]], last.label)

\* C3: get(C, L) raises the 'unknown context' condition for every C that is
\* not a registered context ('all' included), the 'not found' condition when C
\* is registered and L is not, and the two conditions differ.
C3_DistinctLookupErrors ==
    (last.op = "get" /\ ~last.nothrows) =>
        /\ last.context[1] \notin DOMAIN Contexts => last.ret = UnknownContext
        /\ (last.context[1] \in DOMAIN Contexts
              /\ last.label \notin DOMAIN Contexts[last.context[1]])
               => last.ret = NoSuchPath
        /\ UnknownContext # NoSuchPath

\* C4: get(C, L, nothrows=True) never raises: it returns a path or False.
C4_NothrowsNeverRaises ==
    (last.op = "get" /\ last.nothrows) => last.ret.kind \in {"return", "false"}

\* C5: add_context with the name of a registered context fails and leaves the
\* labels registered in that context as they were.
C5_AddExistingContextFails ==
    [][ (last'.op = "add_context" /\ last'.context[1] \in DOMAIN Contexts)
            => (last'.ret.kind = "raise" /\ Contexts' = Contexts) ]_vars

\* The names a selector lists.
Listed(selector) == {selector[i] : i \in 1..Len(selector)} \ {";"}

\* The contexts a selector names, among those registered.
Targets(contexts, selector) ==
    IF "all" \in Listed(selector) THEN DOMAIN contexts
    ELSE Listed(selector) \cap DOMAIN contexts

\* C2: a set(C, L, ...) for one concrete context C that follows a
\* set('all', L, ...) leaves get(D, L) as it was for every other registered D.
C2_OverrideLeavesOthers ==
    [][ (/\ last'.op = "set" /\ last'.ret.kind = "return"
         /\ Len(last'.context) = 1 /\ last'.context[1] # "all"
         /\ last'.after = last'.label)
            => \A D \in DOMAIN Contexts \ {last'.context[1]} :
                  /\ D \in DOMAIN Contexts'
                  /\ get(Contexts', D, last'.label, FALSE)
                       = get(Contexts, D, last'.label, FALSE) ]_vars

\* An override of a broadcast label in one context with another definition,
\* while another context still resolves the label to the broadcast one.
C2_Witness ==
    /\ last.op = "set" /\ last.ret.kind = "return" /\ last.rereg
    /\ Len(last.context) = 1 /\ last.context[1] # "all"
    /\ last.after = last.label
    /\ \E D \in DOMAIN Contexts \ {last.context[1]} :
          /\ get(Contexts, D, last.label, FALSE).kind = "return"
          /\ Contexts[D][last.label] # Contexts[last.context[1]][last.label]

\* C6: a set whose selector names registered contexts only (or 'all') writes
\* the definition of L into the one context of a concrete selector, into every
\* registered context for 'all', into the listed contexts for a list, and
\* leaves every other context's table as it was.
C6_SetWritesSelected ==
    [][ (/\ last'.op = "set"
         /\ Listed(last'.context) \subseteq (DOMAIN Contexts) \cup {"all"})
            => /\ last'.ret = ReturnNone
               /\ DOMAIN Contexts' = DOMAIN Contexts
               /\ \A c \in DOMAIN Contexts :
                    Contexts'[c] =
                      IF c \in Targets(Contexts, last'.context)
                      THEN Put(Contexts[c], last'.label, last'.conf)
                      ELSE Contexts[c] ]_vars

\* A set over a list of two of three registered contexts: the third lacks the
\* label the two now hold.
C6_Witness ==
    /\ last.op = "set" /\ last.ret.kind = "return"
    /\ Cardinality(Listed(last.context)) = 2
    /\ DOMAIN Contexts = ContextNames
    /\ \A c \in Listed(last.context) : Contexts[c][last.label] = last.conf
    /\ \E c \in ContextNames \ Listed(last.context) :
          last.label \notin DOMAIN Contexts[c]

\* C7: after a set of L in C that returns, C holds the definition just given
\* for L (whatever it held before), and every label of C resolves as the table
\* with that one definition replaced says: the write is seen by the next get
\* of L and of every label below L.
C7_LastWriteWins ==
    [][ (last'.op = "set" /\ last'.ret.kind = "return")
            => \A c \in Targets(Contexts, last'.context) :
                 LET written == Put(Contexts[c], last'.label, last'.conf)
                 IN  /\ Contexts'[c][last'.label] = last'.conf
                     /\ \A L \in DOMAIN Contexts'[c] :
                          Rooted(written, L)
                            => get(Contexts', c, L, FALSE) =
                                 Return(RootFirst(written, L)) ]_vars

\* A label was registered again with another definition, and a label below it
\* resolves through the new definition.
C7_Witness ==
    /\ last.op = "set" /\ last.ret.kind = "return" /\ last.rereg
    /\ \E c \in Targets(Contexts, last.context) :
         \E L \in DOMAIN Contexts[c] \ {last.label} :
            /\ Rooted(Contexts[c], L)
            /\ \E i \in 2..Len(Chain(Contexts[c], L)) :
                   Chain(Contexts[c], L)[i] = last.label
            /\ get(Contexts, c, L, FALSE).kind = "return"

\* C8: clone(ctx) makes a view pinned to ctx (to the source's context when ctx
\* is omitted) that resolves every label in every context as the source does;
\* making clones and resolving through any view leaves the other views'
\* contexts and the table as they were, and every view reads the one table.
C8_CloneIsReadOnlyView ==
    [][ /\ (last'.op = "clone" /\ Len(views') = Len(views) + 1) =>
              /\ views'[Len(views')].context =
                    (IF last'.context[1] = None THEN views[last'.view].context
                     ELSE last'.context[1])
              /\ SubSeq(views', 1, Len(views)) = views
              /\ tables' = tables
              /\ \A C \in AnyContext, L \in Labels :
                    get(tables'[views'[Len(views')].tbl], C, L, FALSE)
                      = get(tables[views[last'.view].tbl], C, L, FALSE)
        /\ last'.op \in {"get", "getattr", "get_current_context"} =>
              (views' = views /\ tables' = tables)
        /\ \A v \in 1..Len(views') : views'[v].tbl = views'[1].tbl ]_vars

\* A label resolved by attribute access through a clone pinned to a context
\* other than the source's, in a table the source then still reads.
C8_Witness ==
    /\ last.op = "getattr" /\ last.view > 1 /\ last.ret.kind = "return"
    /\ views[1].context \in DOMAIN Contexts
    /\ views[last.view].context # views[1].context
    /\ getattr(tables, views[1], last.label).kind = "return"
    /\ getattr(tables, views[1], last.label) # last.ret

\* The context set_paths makes current for this process.
StartupContext == IF main.inside THEN "container" ELSE "host"

\* C9: the current context of the process's Pathmap is set once, by set_paths
\* ('container' inside the container, else 'host'), and no step of the build
\* taken afterwards (Sdk construction, environment or mount assembly,
\* restricted builds, interactive container, staging, artifact retrieval, task
\* dispatch) changes it, whether the step returns or raises.
C9_CurrentContextFixedAtStartup ==
    [][ /\ main.pc = "start" =>
              (last'.op = "set_paths" /\ views'[1].context = StartupContext)
        /\ main.pc # "start" =>
              /\ last'.op # "set_paths"
              /\ views'[1].context = views[1].context
              /\ views'[1].context = StartupContext ]_vars

\* The staging directory populated on the host through a clone pinned to
\* 'staging', with the process's Pathmap still on 'host'.
C9_Witness ==
    /\ main.pc = "ready" /\ ~main.inside
    /\ last.op = "populate_staging_dir" /\ last.ret.kind = "return"
    /\ views[1].context = "host"

\* C10: a registered context always holds a parentless 'basedir', and no call
\* changes the 'basedir' of a context that is registered.
C10_BasedirWrittenOnce ==
    [][ \A C \in DOMAIN Contexts :
          /\ C \in DOMAIN Contexts'
          /\ Contexts[C]["basedir"].parent = None
          /\ Contexts'[C]["basedir"] = Contexts[C]["basedir"] ]_vars

\* C31: a set whose selector names a context that is not registered, alone
\* or anywhere in a list, raises "Unknown context" and leaves the table of
\* every context as it was.
C31_UnknownContextWritesNothing ==
    [][ (/\ last'.op = "set"
         /\ ~(Listed(last'.context) \subseteq (DOMAIN Contexts) \cup {"all"}))
            => /\ last'.ret = UnknownContext
               /\ Contexts' = Contexts ]_vars

\* C34: the context every Pathmap object is pinned to, the original's and
\* each clone's, is unset or the name of a registered context: never 'all',
\* never a name that is not registered.
C34_PinnedContextRegistered ==
    \A v \in 1..Len(views) :
       views[v].context \in {None} \cup DOMAIN tables[views[v].tbl]

\* ============================================================ task dispatch
\* SpecDispatch: builder.dispatch_tasks over a list of steps, each a dict
\* with one entry {task: context}, and Concrete_sdk.execute_task for the
\* steps of the current context.  A dict is the sequence of its items in
\* insertion order; popitem takes the last.

\* Steps in the list given to dispatch_tasks.
MaxSteps == 3

\* Task names found in steps: three methods of the Sdk object, a name the
\* object does not have, an attribute holding a string, an attribute
\* holding None.
TaskNames == {"checkout", "build_container_image", "build", "bogus",
              "target", "container"}
\* Contexts a step declares, and the process runs in.
StepContexts == {"host", "container"}

\* getattr(self, task, None) on a freshly constructed Concrete_sdk: what the
\* name is bound to.
sdk_getattr(task) ==
    CASE task \in {"checkout", "build_container_image", "build"} -> "method"
      [] task = "target"    -> "str"
      [] task = "container" -> "None"
      [] OTHER              -> "None"

NoSdkMethod == Raise("LookupError", "does not identify an Sdk method")
NotCallable == Raise("TypeError", "does not identify an Sdk method")
TaskFailed  == Raise("Exception", "raised by the task")
EmptyPop    == Raise("KeyError", "popitem(): dictionary is empty")

\* execute_task that calls whatever the name is bound to, without a check.
execute_task_unchecked(task) == ReturnNone

\* Concrete_sdk.execute_task up to the call of the method: the exception it
\* raises, or ReturnNone when the method is about to be called.
execute_task(task) ==
    IF sdk_getattr(task) = "None" THEN NoSdkMethod
    ELSE IF sdk_getattr(task) # "method" THEN NotCallable
    ELSE ReturnNone

\* A dispatch that invokes the steps of every context.
matches_always(ctx, context) == TRUE

\* dispatch_tasks: `if ctx == context`.
matches(ctx, context) == ctx = context

\* The lists of at most MaxSteps single-entry steps.
StepLists ==
    UNION { [1..n -> {<<[task |-> t, ctx |-> c]>> :
                         t \in TaskNames, c \in StepContexts}] : n \in 0..MaxSteps }

InitDispatch ==
    /\ tables = <<EmptyDict>>
    /\ views  = <<[context |-> None, tbl |-> 1]>>
    /\ last   = NoCall
    /\ \E steps \in StepLists, context \in StepContexts :
          main = [pc |-> "loop", given |-> steps, steps |-> steps,
                  context |-> context, i |-> 1, running |-> "",
                  trace |-> <<>>, error |-> ReturnNone]

\* The step the loop is at, and the item popitem takes from it.
AtStep   == main.pc = "loop" /\ main.i <= Len(main.steps)
Popped   == main.steps[main.i][Len(main.steps[main.i])]
AfterPop == [main.steps EXCEPT ![main.i] = SubSeq(@, 1, Len(@) - 1)]

Event(ev, task) == [ev |-> ev, task |-> task]

\* task.popitem() on a step that holds no item.
dispatch_pop_empty ==
    /\ AtStep /\ main.steps[main.i] = <<>>
    /\ main' = [main EXCEPT !.pc = "failed", !.error = EmptyPop]
    /\ UNCHANGED <<tables, views, last>>

\* A step declared for another context: nothing is called.
dispatch_skip ==
    /\ AtStep /\ main.steps[main.i] # <<>>
    /\ ~matches(Popped.ctx, main.context)
    /\ main' = [main EXCEPT !.steps = AfterPop, !.i = @ + 1]
    /\ UNCHANGED <<tables, views, last>>

\* A step of this context whose task execute_task refuses.
dispatch_unresolved ==
    /\ AtStep /\ main.steps[main.i] # <<>>
    /\ matches(Popped.ctx, main.context)
    /\ execute_task(Popped.task).kind = "raise"
    /\ main' = [main EXCEPT !.steps = AfterPop, !.pc = "failed",
                            !.error = execute_task(Popped.task)]
    /\ UNCHANGED <<tables, views, last>>

\* A step of this context whose task is a method: the method is called.
dispatch_invoke ==
    /\ AtStep /\ main.steps[main.i] # <<>>
    /\ matches(Popped.ctx, main.context)
    /\ execute_task(Popped.task).kind = "return"
    /\ main' = [main EXCEPT !.steps = AfterPop, !.pc = "task",
                            !.running = Popped.task,
                            !.trace = Append(@, Event("begin", Popped.task))]
    /\ UNCHANGED <<tables, views, last>>

\* The method returns: the loop goes on to the next step.
task_return ==
    /\ main.pc = "task"
    /\ main' = [main EXCEPT !.pc = "loop", !.i = @ + 1, !.running = "",
                            !.trace = Append(@, Event("end", main.running))]
    /\ UNCHANGED <<tables, views, last>>

\* The method raises (or exits): nothing catches it.
task_raise ==
    /\ main.pc = "task"
    /\ main' = [main EXCEPT !.pc = "failed", !.running = "",
                            !.error = TaskFailed,
                            !.trace = Append(@, Event("raise", main.running))]
    /\ UNCHANGED <<tables, views, last>>

\* The list is exhausted: dispatch_tasks returns.
dispatch_return ==
    /\ main.pc = "loop" /\ main.i > Len(main.steps)
    /\ main' = [main EXCEPT !.pc = "done"]
    /\ UNCHANGED <<tables, views, last>>

NextDispatch ==
    \/ dispatch_skip
    \/ dispatch_unresolved
    \/ dispatch_invoke
    \/ task_return
    \/ task_raise
    \/ dispatch_return

SpecDispatch == InitDispatch /\ [][NextDispatch]_vars

\* SpecRedispatch: the caller hands the list it holds to dispatch_tasks
\* again after the call returned.
dispatch_again ==
    /\ main.pc = "done"
    /\ main' = [main EXCEPT !.pc = "loop", !.i = 1]
    /\ UNCHANGED <<tables, views, last>>

NextRedispatch ==
    \/ dispatch_skip
    \/ dispatch_unresolved
    \/ dispatch_invoke
    \/ task_return
    \/ task_raise
    \/ dispatch_return
    \/ dispatch_again
    \/ dispatch_pop_empty

SpecRedispatch == InitDispatch /\ [][NextRedispatch]_vars

\* ------------------------------------------------- claims on task dispatch

\* The tasks of the steps of `steps` declared for `context`, in list order.
RECURSIVE TasksFor(_, _)
TasksFor(steps, context) ==
    IF steps = <<>> THEN <<>>
    ELSE (IF steps[1][1].ctx = context THEN <<steps[1][1].task>> ELSE <<>>)
             \o TasksFor(Tail(steps), context)

\* The tasks whose method was called, in the order of the calls.
RECURSIVE Invoked(_)
Invoked(trace) ==
    IF trace = <<>> THEN <<>>
    ELSE (IF trace[1].ev = "begin" THEN <<trace[1].task>> ELSE <<>>)
             \o Invoked(Tail(trace))

IsPrefix(s, t) == Len(s) <= Len(t) /\ s = SubSeq(t, 1, Len(s))

\* C11: dispatch_tasks calls the tasks of the steps declared for the current
\* context and no other, in list order and once per step: what has been
\* called is at every moment the beginning of that list, and the whole of it
\* when dispatch_tasks returns; a call is followed by its own return (or by
\* the exception that ends the dispatch) before any other call begins.
C11_DispatchInOrder ==
    /\ IsPrefix(Invoked(main.trace), TasksFor(main.given, main.context))
    /\ main.pc = "done" =>
          Invoked(main.trace) = TasksFor(main.given, main.context)
    /\ \A k \in 1..Len(main.trace) :
          main.trace[k].ev = "begin" =>
             IF k = Len(main.trace)
             THEN main.pc = "task" /\ main.running = main.trace[k].task
             ELSE /\ main.trace[k + 1].ev \in {"end", "raise"}
                  /\ main.trace[k + 1].task = main.trace[k].task

\* Steps [{A: host}, {B: container}, {C: host}] dispatched on the host to the
\* end: A then C were called, B was not.
C11_Witness ==
    /\ main.pc = "done" /\ main.context = "host" /\ Len(main.given) = 3
    /\ main.given[1][1].ctx = "host" /\ main.given[2][1].ctx = "container"
    /\ main.given[3][1].ctx = "host"
    /\ main.given[1][1].task # main.given[3][1].task
    /\ main.given[2][1].task \notin {main.given[1][1].task, main.given[3][1].task}
    /\ Invoked(main.trace) = <<main.given[1][1].task, main.given[3][1].task>>

\* The names that are attributes of the Sdk object without being methods.
NonCallableAttributes == {"target", "container"}

\* C12 as stated: a step whose task is not a method of the Sdk object ends
\* the dispatch with LookupError when the name is unknown and TypeError when
\* it is a non-callable attribute; nothing is called for it or after it.
C12_UnresolvedAborts ==
    [][ /\ main.pc # "failed"
        /\ (AtStep /\ sdk_getattr(Popped.task) # "method") =>
              /\ main'.pc = "failed"
              /\ main'.trace = main.trace
              /\ main'.error = IF Popped.task \in NonCallableAttributes
                               THEN NotCallable ELSE NoSdkMethod ]_vars

\* C12 amended: the same for a step declared for the current context, with
\* LookupError when the name is unknown or bound to None and TypeError when
\* it is bound to another non-callable value; a step declared for another
\* context is skipped whatever its task name.
C12_UnresolvedInContextAborts ==
    [][ /\ main.pc # "failed"
        /\ (AtStep /\ sdk_getattr(Popped.task) # "method") =>
              IF Popped.ctx = main.context
              THEN /\ main'.pc = "failed"
                   /\ main'.trace = main.trace
                   /\ main'.error = IF sdk_getattr(Popped.task) = "None"
                                    THEN NoSdkMethod ELSE NotCallable
              ELSE /\ main'.pc = "loop" /\ main'.i = main.i + 1
                   /\ main'.trace = main.trace ]_vars

\* A dispatch that called one task and then failed on an unknown name, with a
\* step of the current context naming a method still to come.
C12_Witness ==
    /\ main.pc = "failed" /\ main.error = NoSdkMethod
    /\ Len(main.trace) = 2 /\ main.i = 2 /\ Len(main.given) = 3
    /\ main.given[2][1].task = "bogus"
    /\ main.given[3][1].ctx = main.context
    /\ sdk_getattr(main.given[3][1].task) = "method"

\* C32: when dispatch_tasks has returned, every step of the list still holds
\* the entry it was given with, and a dispatch of the same list again finds
\* an entry in every step.
C32_StepsKept ==
    /\ main.pc = "done" => main.steps = main.given
    /\ main.error # EmptyPop

\* ==================================================== environment assembly
\* SpecEnv: Concrete_sdk.get_env_vars over the layers it is given.  A dict of
\* variables is a function from names to values; the value a layer gives a
\* variable here is the name of the layer, so that the result tells which
\* layer a value came from.

\* {**a, **b}: the items of a, then those of b over them.
Merge(a, b) ==
    [k \in (DOMAIN a) \cup (DOMAIN b) |-> IF k \in DOMAIN b THEN b[k] ELSE a[k]]

\* The variables get_env_vars computes.
ConfiguredKeys ==
    {"VERBOSE", "BUILD_ARTIFACTS_OUTDIR", "PACKAGE_OUTDIR", "NUM_BUILD_CORES",
     "PYTHONPATH", "CONFIGS_DIR", "SDK_TOPDIR"}
configured == [k \in ConfiguredKeys |-> "configured"]

\* Concrete_sdk.get_env_vars: `specifics` is bound and not used.
get_env_vars(inherit, environ, defaults, specifics, overrides) ==
    Merge(Merge(Merge(IF inherit THEN environ ELSE EmptyDict, defaults),
                configured), overrides)

\* Names of variables the layers may define: one get_env_vars computes too,
\* and one it does not.
EnvKeys == {"VERBOSE", "CC"}
\* The dicts over EnvKeys a layer can be.
Layer(name) == UNION { [ks -> {name}] : ks \in SUBSET EnvKeys }

InitEnv ==
    /\ tables = <<EmptyDict>>
    /\ views  = <<[context |-> None, tbl |-> 1]>>
    /\ last   = NoCall
    /\ \E environ \in Layer("environ"), defaults \in Layer("defaults"),
          specifics \in Layer("specifics"), overrides \in Layer("overrides") :
          main = [pc |-> "ready", environ |-> environ, defaults |-> defaults,
                  specifics |-> specifics, overrides |-> overrides,
                  inherit |-> FALSE, result |-> EmptyDict]

\* sdk.get_env_vars(inherit)
call_get_env_vars ==
    /\ main.pc = "ready"
    /\ \E inherit \in BOOLEAN :
          main' = [main EXCEPT !.pc = "returned", !.inherit = inherit,
                      !.result = get_env_vars(inherit, main.environ, main.defaults,
                                              main.specifics, main.overrides)]
    /\ UNCHANGED <<tables, views, last>>

NextEnv == call_get_env_vars

SpecEnv == InitEnv /\ [][NextEnv]_vars

\* The layers of a call in increasing priority, the inherited environment
\* empty when it is not asked for.
LayersOf(m) ==
    << IF m.inherit THEN m.environ ELSE EmptyDict, m.defaults, m.specifics,
       configured, m.overrides >>

\* C20: the result of get_env_vars holds every variable some layer defines,
\* each with the value of the highest-priority layer defining it, the layers
\* being in increasing priority the inherited environment (when asked for),
\* the defaults, the variables of the build spec, the computed values, the
\* overrides.
C20_EnvLayered ==
    main.pc = "returned" =>
        LET layers == LayersOf(main)
        IN  /\ DOMAIN main.result = UNION {DOMAIN layers[i] : i \in 1..5}
            /\ \A k \in DOMAIN main.result :
                  \E i \in 1..5 :
                     /\ k \in DOMAIN layers[i] /\ main.result[k] = layers[i][k]
                     /\ \A j \in (i+1)..5 : k \notin DOMAIN layers[j]

\* ================================================== containers and the Sdk
\* The container runtime is the set of ids of the containers it holds and
\* whether it holds the image of this Sdk object.  A Docker object is a
\* record of the attributes container.Docker gives it.

\* Scripts in the directory of one stage.
MaxScripts == 2
\* Lines a container writes to its log.
MaxLogLines == 2

\* Exit statuses of scripts and containers.
ExitCodes == {0, 1, 2}

\* What the docker client raises when the runtime fails.
DockerError       == Raise("docker.errors.APIError", "")
ImageNotFound     == Raise("ImageNotFound", "")
ContainerNotFound == Raise("ContainerNotFound", "No suitable container found")
NoLogs            == Raise("RuntimeError", "Interactive containers do not return logs")
BadBuildType      == Raise("ValueError", "Invalid sdk build type specified")
ScriptFailed      == Raise("Exception", "command failed")

\* container.Docker.__init__
Docker(img, env, interactive, ephemeral) ==
    [image |-> img, env |-> env, interactive |-> interactive,
     ephemeral |-> ephemeral, mounts |-> <<>>, mount_tuples |-> <<>>,
     container |-> 0, exited |-> FALSE, exitcode |-> 0, cli |-> <<>>]

\* Docker.set_mounts
set_mounts(d, mounts) ==
    [d EXCEPT !.mounts = @ \o mounts, !.mount_tuples = mounts]

\* Docker.interact with a command line that never has --rm.
interact_keeps(d, cmd, rc) ==
    [d EXCEPT !.cli = Append(@, [rm |-> FALSE, net |-> "host", env |-> d.env,
                                 mounts |-> d.mount_tuples, it |-> TRUE,
                                 image |-> d.image, cmd |-> cmd]),
              !.exited = TRUE, !.exitcode = rc]

\* Docker.interact: the docker command line (cli: the command lines run so
\* far, by their options), run in the foreground to its end with status rc.
interact(d, cmd, rc) ==
    [d EXCEPT !.cli = Append(@, [rm |-> d.ephemeral, net |-> "host",
                                 env |-> d.env, mounts |-> d.mount_tuples,
                                 it |-> TRUE, image |-> d.image, cmd |-> cmd]),
              !.exited = TRUE, !.exitcode = rc]

\* Docker.run of a container that is not interactive: detached, as `id`.
run_detached(d, id) == [d EXCEPT !.container = id]

\* Docker.wait, the container having ended with `status`.
wait(d, status) == IF d.exited THEN d.exitcode ELSE status

Mount(source, target) == [source |-> source, target |-> target, type |-> "bind"]

\* A mount that is a 3-tuple of host path, container path and mount type.
well_formed(mount) == DOMAIN mount = {"source", "target", "type"}

InvalidMounts == Raise("ValueError", "invalid mounts")

\* utils.validate_mounts: a list of well-formed mounts is returned as it is,
\* any other is refused.
validate_mounts(mounts) ==
    IF \A i \in 1..Len(mounts) : well_formed(mounts[i])
    THEN Return(mounts) ELSE InvalidMounts

\* get_mounts with the override mounts ahead of the mandatory bindings.
get_mounts_overrides_first(build_type, mount_defaults, mount_overrides) ==
    IF build_type # "dev" THEN Return(<<>>)
    ELSE validate_mounts(mount_defaults \o mount_overrides
                           \o << Mount("sdk_path", "home"),
                                 Mount("staging", "basedir") >>)

\* Concrete_sdk.get_mounts
get_mounts(build_type, mount_defaults, mount_overrides) ==
    IF build_type # "dev" THEN Return(<<>>)
    ELSE validate_mounts(mount_defaults
                           \o << Mount("sdk_path", "home"),
                                 Mount("staging", "basedir") >>
                           \o mount_overrides)

\* ' '.join(packages)
RECURSIVE join(_)
join(packages) ==
    IF Len(packages) <= 1 THEN packages
    ELSE <<packages[1], " ">> \o join(Tail(packages))

\* The command each method runs in its container.
EntrypointCmd == <<"basedir", "builder_entrypoint", "-t", "target", "--cores">>
HookCmd       == <<"hooks", "run_hooks.py", "build_packages">>
ShellCmd      == <<"/bin/bash">>

\* sorted(names): the names in increasing order.
RECURSIVE sorted(_)
sorted(names) ==
    IF names = {} THEN <<>>
    ELSE LET least == CHOOSE n \in names : \A m \in names : n <= m
         IN  <<least>> \o sorted(names \ {least})

\* Stages with the build before its preparation.
StagesBuildFirst == <<"build", "prebuild", "postbuild">>

\* The stages of run_staged_build.
Stages == <<"prebuild", "build", "postbuild">>

\* The values of conf["sdk_build_type"].
SdkBuildTypes == {"automated", "dev", "other"}
\* The lifecycle paths of the builder that run a method of the Sdk object:
\* --build-package, --build-firmware, --container, and the task `build`.
LifecyclePaths == {"packages", "firmware", "interactive", "build",
                   "build_retrieve", "retrieve"}
\* Values of --build-package.
PackageLists == {<<"p1">>, <<"p1", "p2">>}

\* SpecSdk: a constructed Sdk object, and the builder taking one lifecycle
\* path on it.  `main` holds the position of the process (pc), the object's
\* attributes (build_type, handle = self.container), the Docker object of the
\* build, the runtime, and the trace of what was done.

SdkEvent(ev, what, n) == [ev |-> ev, what |-> what, n |-> n]

NoDocker == Docker("", EmptyDict, FALSE, FALSE)

\* The layers the Sdk object of SpecSdk is configured with.
SdkDefaults  == [k \in {"CC"} |-> "defaults"]
SdkOverrides == [k \in {"VERBOSE"} |-> "overrides"]

InitSdk ==
    /\ tables = <<EmptyDict>>
    /\ views  = <<[context |-> None, tbl |-> 1]>>
    /\ last   = NoCall
    /\ \E build_type \in SdkBuildTypes, image \in BOOLEAN :
          main = [pc |-> "ready", build_type |-> build_type, path |-> "",
                  method |-> "", packages |-> <<>>, ephemeral |-> FALSE,
                  stage |-> 0, todo |-> <<>>, docker |-> NoDocker,
                  cmd |-> <<>>, handle |-> 0, loglines |-> 0,
                  runtime |-> [image |-> image, containers |-> {}],
                  trace |-> <<>>, archive |-> <<>>, copied_from |-> "",
                  status |-> 0, error |-> ReturnNone]

Fail(exc) == [main EXCEPT !.pc = "failed", !.error = exc]

\* builder: the lifecycle path the command line selects.
builder_enter ==
    /\ main.pc = "ready"
    /\ \E path \in LifecyclePaths, packages \in PackageLists,
          ephemeral \in BOOLEAN :
          /\ path # "interactive" => ~ephemeral
          /\ path # "packages" => packages = <<"p1">>
          /\ main' = [main EXCEPT
                !.path = path,
                !.packages = IF path = "packages" THEN packages ELSE <<>>,
                !.ephemeral = ephemeral,
                !.method = CASE path = "packages"    -> "build_single_packages"
                             [] path = "firmware"    -> "build_only_firmware"
                             [] path = "interactive" -> "get_interactive_container"
                             [] path = "retrieve"    -> "retrieve_build_artifacts"
                             [] OTHER                -> "build",
                !.pc = IF path \in {"build", "build_retrieve"} THEN "build"
                       ELSE IF path = "retrieve" THEN "retrieve"
                       ELSE "check",
                !.trace = IF path = "retrieve"
                          THEN Append(@, SdkEvent("retrieve", path, 0)) ELSE @]
    /\ UNCHANGED <<tables, views, last>>

\* build that runs the staged build whatever the build kind.
build_always_staged ==
    /\ main.pc = "build"
    /\ main' = [main EXCEPT !.pc = "stage", !.stage = 1,
                            !.method = "run_staged_build"]
    /\ UNCHANGED <<tables, views, last>>

\* Concrete_sdk.build
build ==
    /\ main.pc = "build"
    /\ main' = CASE main.build_type = "automated" ->
                      [main EXCEPT !.pc = "stage", !.stage = 1,
                                   !.method = "run_staged_build"]
                 [] main.build_type = "dev" ->
                      [main EXCEPT !.pc = "check",
                                   !.method = "build_only_firmware"]
                 [] OTHER -> Fail(BadBuildType)
    /\ UNCHANGED <<tables, views, last>>

\* run_staged_build: the next stage; run_scripts lists its scripts, sorted.
run_staged_build ==
    /\ main.pc = "stage"
    /\ \E names \in SUBSET (1..MaxScripts) :
          main' = [main EXCEPT !.pc = "scripts", !.todo = sorted(names),
                      !.trace = Append(@, SdkEvent("stage", Stages[main.stage], 0))]
    /\ UNCHANGED <<tables, views, last>>

\* utils.run_commands: the next script of the stage runs to its end; a
\* non-zero exit status is fatal.
run_script ==
    /\ main.pc = "scripts" /\ main.todo # <<>>
    /\ \E code \in ExitCodes :
          main' = [(IF code # 0 THEN Fail(ScriptFailed)
                    ELSE [main EXCEPT !.todo = Tail(@)])
                   EXCEPT !.trace = Append(@, SdkEvent("script",
                                              Stages[main.stage], main.todo[1]))]
    /\ UNCHANGED <<tables, views, last>>

\* run_scripts returns: the next stage, or the end of run_staged_build.
run_scripts_return ==
    /\ main.pc = "scripts" /\ main.todo = <<>>
    /\ main' = IF main.stage < Len(Stages)
               THEN [main EXCEPT !.pc = "stage", !.stage = @ + 1]
               ELSE [main EXCEPT !.pc = "returned"]
    /\ UNCHANGED <<tables, views, last>>

\* A start that does not ask the runtime for the image.
check_image_skipped ==
    /\ main.pc = "check"
    /\ main' = [main EXCEPT !.pc = "construct"]
    /\ UNCHANGED <<tables, views, last>>

\* The three methods that run a container start alike: without the image of
\* this Sdk object in the runtime they raise ImageNotFound.
check_image ==
    /\ main.pc = "check"
    /\ main' = IF ~main.runtime.image THEN Fail(ImageNotFound)
               ELSE [main EXCEPT !.pc = "construct"]
    /\ UNCHANGED <<tables, views, last>>

\* The environment the method gives its container.
environ_of(method, packages) ==
    LET environ == get_env_vars(FALSE, EmptyDict, SdkDefaults, EmptyDict,
                                SdkOverrides)
    IN  IF method = "build_single_packages"
        THEN Put(environ, "PACKAGES_TO_BUILD", join(packages))
        ELSE environ

\* environ = self.get_env_vars(inherit=False);
\* container = self.containers.new_container(tag, environ, ...)
new_container ==
    /\ main.pc = "construct"
    /\ main' = [main EXCEPT
          !.pc = "mounts",
          !.docker = Docker("container_img_tag",
                            environ_of(main.method, main.packages),
                            main.method = "get_interactive_container",
                            main.ephemeral),
          !.trace = Append(@, SdkEvent("new_container", main.method, 0))]
    /\ UNCHANGED <<tables, views, last>>

\* container.set_mounts(self.get_mounts())
container_set_mounts ==
    /\ main.pc = "mounts"
    /\ main' = [main EXCEPT
          !.pc = "run",
          !.docker = set_mounts(@, get_mounts(main.build_type, <<>>, <<>>).val),
          !.trace = Append(@, SdkEvent("set_mounts", main.method, 0))]
    /\ UNCHANGED <<tables, views, last>>

\* Every method running the builder entrypoint.
cmd_always_entrypoint(method) == EntrypointCmd

\* The command of the method.
cmd_of(method) ==
    CASE method = "build_single_packages"     -> HookCmd
      [] method = "get_interactive_container" -> ShellCmd
      [] OTHER                                -> EntrypointCmd

\* container.run(cmd): an interactive container runs in the foreground to
\* its end (and is removed then when ephemeral), any other is started
\* detached and stays in the runtime.
container_run ==
    /\ main.pc = "run"
    /\ \E rc \in ExitCodes :
        LET d == IF main.docker.interactive
                 THEN interact(main.docker, cmd_of(main.method), rc)
                 ELSE run_detached(main.docker, 1)
        IN main' = [main EXCEPT
          !.cmd = cmd_of(main.method),
          !.trace = Append(@, SdkEvent("run", main.method, 0)),
          !.docker = d,
          !.runtime.containers =
                IF d.cli # <<>> /\ d.cli[Len(d.cli)].rm THEN @ ELSE @ \cup {1},
          !.pc = IF main.docker.interactive THEN "returned" ELSE "logs"]
    /\ UNCHANGED <<tables, views, last>>

\* for line in logs: utils.log(line)
container_log ==
    /\ main.pc = "logs" /\ main.loglines < MaxLogLines
    /\ main' = [main EXCEPT !.loglines = @ + 1,
                            !.trace = Append(@, SdkEvent("log", main.method,
                                                         main.loglines + 1))]
    /\ UNCHANGED <<tables, views, last>>

\* The log stream ends.
container_logs_end ==
    /\ main.pc = "logs"
    /\ main' = [main EXCEPT !.pc = "wait",
                            !.trace = Append(@, SdkEvent("logs_end", main.method, 0))]
    /\ UNCHANGED <<tables, views, last>>

\* A wait that records the container and returns whatever its exit status.
container_wait_ignores_status ==
    /\ main.pc = "wait"
    /\ \E status \in ExitCodes :
        main' = [main EXCEPT !.pc = "returned",
                    !.handle = main.docker.container,
                    !.trace = Append(@, SdkEvent("wait", main.method,
                                                 wait(main.docker, status)))]
    /\ UNCHANGED <<tables, views, last>>

\* errno = container.wait(); if errno: sys.exit(errno);
\* self.container = container
container_wait ==
    /\ main.pc = "wait"
    /\ \E status \in ExitCodes :
        LET errno == wait(main.docker, status)
        IN  main' = [(IF errno # 0
                      THEN [main EXCEPT !.pc = "exited", !.status = errno]
                      ELSE [main EXCEPT !.pc = "returned",
                                        !.handle = main.docker.container])
                     EXCEPT !.trace = Append(@, SdkEvent("wait", main.method, errno))]
    /\ UNCHANGED <<tables, views, last>>

\* builder: after a restricted build, sdk.retrieve_build_artifacts(...), and
\* so after a build step that a retrieve_build_artifacts step follows; after
\* any other method, the end of the process.
builder_after ==
    /\ main.pc = "returned"
    /\ main' = IF main.path \in {"packages", "firmware", "build_retrieve"}
               THEN [main EXCEPT !.pc = "retrieve",
                          !.trace = Append(@, SdkEvent("retrieve", main.path, 0))]
               ELSE [main EXCEPT !.pc = "done"]
    /\ UNCHANGED <<tables, views, last>>

\* The runtime is not the orchestrator's alone: the container of the build
\* is removed by someone else while the orchestrator is about to use it.
container_removed_elsewhere ==
    /\ main.pc \in {"retrieve", "copy"}
    /\ main.handle # 0 /\ main.handle \in main.runtime.containers
    /\ main' = [main EXCEPT !.runtime.containers = @ \ {main.handle}]
    /\ UNCHANGED <<tables, views, last>>

\* What docker raises for a container it does not have, and the container
\* cp_from_img makes to copy out of.
DockerNotFound == Raise("docker.errors.NotFound", "")
Throwaway == 2

\* retrieve_build_artifacts, up to the copy: the runtime is asked for the
\* container the object holds, else (automated kind only) for the image; an
\* object of another kind that holds no container copies nothing.
retrieve_check ==
    /\ main.pc = "retrieve"
    /\ main' =
         IF main.handle # 0
         THEN IF main.handle \notin main.runtime.containers
              THEN Fail(ContainerNotFound)
              ELSE [main EXCEPT !.pc = "copy"]
         ELSE IF main.build_type = "automated"
              THEN IF ~main.runtime.image THEN Fail(ImageNotFound)
                   ELSE [main EXCEPT !.pc = "copy"]
              ELSE [main EXCEPT !.pc = "timestamp"]
    /\ UNCHANGED <<tables, views, last>>

\* A copy that removes the container it could not copy out of.
retrieve_copy_cleans_up ==
    /\ main.pc = "copy"
    /\ IF main.handle # 0
       THEN IF main.handle \notin main.runtime.containers
            THEN main' = Fail(DockerNotFound)
            ELSE \/ main' = [main EXCEPT !.pc = "remove",
                                         !.archive = <<"artifacts">>,
                                         !.copied_from = "container"]
                 \/ main' = [Fail(DockerError) EXCEPT
                               !.runtime.containers = @ \ {main.handle}]
       ELSE \/ main' = [main EXCEPT !.pc = "timestamp",
                                    !.archive = <<"artifacts">>,
                                    !.copied_from = "image"]
            \/ main' = [Fail(DockerError) EXCEPT
                          !.runtime.containers = @ \cup {Throwaway}]
    /\ UNCHANGED <<tables, views, last>>

\* cp_from_container up to its removal, or cp_from_img: the tree is read out
\* and written to the archive, or the runtime fails and nothing is written.
\* cp_from_img makes a container of its own and removes it after the copy.
retrieve_copy ==
    /\ main.pc = "copy"
    /\ IF main.handle # 0
       THEN IF main.handle \notin main.runtime.containers
            THEN main' = Fail(DockerNotFound)
            ELSE \/ main' = [main EXCEPT !.pc = "remove",
                                         !.archive = <<"artifacts">>,
                                         !.copied_from = "container"]
                 \/ main' = Fail(DockerError)
       ELSE \/ main' = [main EXCEPT !.pc = "timestamp",
                                    !.archive = <<"artifacts">>,
                                    !.copied_from = "image"]
            \/ main' = [Fail(DockerError) EXCEPT
                          !.runtime.containers = @ \cup {Throwaway}]
    /\ UNCHANGED <<tables, views, last>>

\* cp_from_container(..., remove_container=True), after the copy:
\* container.remove(force=True)
retrieve_remove ==
    /\ main.pc = "remove"
    /\ main' = [main EXCEPT !.pc = "timestamp",
                            !.runtime.containers = @ \ {main.handle}]
    /\ UNCHANGED <<tables, views, last>>

\* self.set_end_timestamp(); utils.append_to_tarball(...)
retrieve_append ==
    /\ main.pc = "timestamp"
    /\ main' = [main EXCEPT !.pc = "done",
                            !.archive = @ \o <<"buildlog", "timestamp">>]
    /\ UNCHANGED <<tables, views, last>>

NextSdk ==
    \/ builder_enter
    \/ build
    \/ run_staged_build
    \/ run_script
    \/ run_scripts_return
    \/ check_image
    \/ new_container
    \/ container_set_mounts
    \/ container_run
    \/ container_log
    \/ container_logs_end
    \/ container_wait
    \/ builder_after
    \/ container_removed_elsewhere
    \/ retrieve_check
    \/ retrieve_copy
    \/ retrieve_remove
    \/ retrieve_append

SpecSdk == InitSdk /\ [][NextSdk]_vars

\* SpecRetrieveAgain: the Sdk object is kept after retrieve_build_artifacts
\* returned, and the method is called on it once more.
MaxRetrievals == 2

retrieve_again ==
    /\ main.pc = "done"
    /\ main.archive # <<>>
    /\ Cardinality({i \in DOMAIN main.trace : main.trace[i].ev = "retrieve"})
          < MaxRetrievals
    /\ main' = [main EXCEPT
                  !.pc = "retrieve",
                  !.trace = Append(@, SdkEvent("retrieve", main.path, 0))]
    /\ UNCHANGED <<tables, views, last>>

NextRetrieveAgain ==
    \/ builder_enter
    \/ build
    \/ run_staged_build
    \/ run_script
    \/ run_scripts_return
    \/ check_image
    \/ new_container
    \/ container_set_mounts
    \/ container_run
    \/ container_log
    \/ container_logs_end
    \/ container_wait
    \/ builder_after
    \/ container_removed_elsewhere
    \/ retrieve_check
    \/ retrieve_copy
    \/ retrieve_remove
    \/ retrieve_append
    \/ retrieve_again

SpecRetrieveAgain == InitSdk /\ [][NextRetrieveAgain]_vars

\* --------------------------------------------- claims on the Sdk lifecycle

\* The events of `trace` that are `ev` events.
Events(trace, ev) == SelectSeq(trace, LAMBDA e : e.ev = ev)

\* The stage a script event of trace[k] belongs to: that of the last stage
\* event before it.
StageAt(trace, k) ==
    LET before == {j \in 1..k : trace[j].ev = "stage"}
    IN  IF before = {} THEN ""
        ELSE trace[CHOOSE j \in before : \A i \in before : i <= j].what

\* C13: the stages run in the order prebuild, build, postbuild; the scripts
\* of a stage run one after the other in increasing order, within their
\* stage; and a script that exits non-zero is the last thing the process
\* runs: no later script and no later stage.
C13_StagesInOrder ==
    [][ /\ main.pc # "failed"
        /\ LET trace  == main'.trace
               stages == Events(trace, "stage")
           IN  /\ \A k \in 1..Len(stages) :
                     stages[k].what = <<"prebuild", "build", "postbuild">>[k]
               /\ \A k \in 1..Len(trace) :
                     trace[k].ev = "script" =>
                        /\ trace[k].what = StageAt(trace, k)
                        /\ \A j \in 1..(k-1) :
                              (trace[j].ev = "script"
                                 /\ trace[j].what = trace[k].what)
                                   => trace[j].n < trace[k].n
               /\ main'.error = ScriptFailed =>
                     /\ main'.pc = "failed"
                     /\ trace[Len(trace)].ev = "script"
               /\ (main'.pc = "returned" /\ main'.method = "run_staged_build")
                     => Len(stages) = 3 ]_vars

\* A staged build whose prebuild ran two scripts and whose build stage
\* failed on its second script: postbuild never began.
C13_Witness ==
    /\ main.pc = "failed" /\ main.error = ScriptFailed
    /\ Len(Events(main.trace, "stage")) = 2
    /\ Len(main.trace) = 6
    /\ main.trace[6] = SdkEvent("script", "build", 2)
    /\ main.trace[3] = SdkEvent("script", "prebuild", 2)

\* C14: build() runs the staged build for the 'automated' kind only; for the
\* 'dev' kind it runs build_only_firmware, and no stage and no script is run;
\* for any other kind it raises ValueError and nothing is run.
C14_BuildByKind ==
    [][ /\ main.pc = "build" =>
              CASE main.build_type = "automated" ->
                      main'.pc = "stage" /\ main'.method = "run_staged_build"
                [] main.build_type = "dev" ->
                      main'.pc = "check" /\ main'.method = "build_only_firmware"
                [] OTHER ->
                      main'.pc = "failed" /\ main'.error = BadBuildType
        /\ main'.path = "build" =>
              /\ main'.build_type # "automated" =>
                    /\ Events(main'.trace, "stage") = <<>>
                    /\ Events(main'.trace, "script") = <<>>
              /\ main'.build_type = "automated" =>
                    \A k \in 1..Len(main'.trace) :
                        main'.trace[k].ev \in {"stage", "script"}
              /\ main'.build_type = "dev" =>
                    \A k \in 1..Len(main'.trace) :
                        main'.trace[k].what = "build_only_firmware"
              /\ main'.build_type \notin {"automated", "dev"} =>
                    main'.trace = <<>> ]_vars

\* build() on a 'dev' object: the firmware-only build ran its container to a
\* zero exit, and no stage was run.
C14_Witness ==
    /\ main.path = "build" /\ main.build_type = "dev" /\ main.pc = "done"
    /\ main.handle # 0 /\ main.cmd = EntrypointCmd
    /\ Len(Events(main.trace, "run")) = 1
    /\ Events(main.trace, "stage") = <<>>

\* The restricted builds.
RestrictedBuilds == {"build_only_firmware", "build_single_packages"}

\* C15: a restricted build started without the image of this Sdk object in
\* the runtime raises ImageNotFound, and no container was constructed,
\* given mounts or run: a container is only ever constructed with the image
\* present.
C15_NoImageNoContainer ==
    [][ /\ (main.pc = "check" /\ main.method \in RestrictedBuilds
              /\ ~main.runtime.image) =>
              /\ main'.pc = "failed" /\ main'.error = ImageNotFound
              /\ main'.docker = NoDocker
              /\ main'.runtime = main.runtime
              /\ main'.trace = main.trace
        /\ (main'.method \in RestrictedBuilds /\ ~main'.runtime.image) =>
              /\ main'.docker = NoDocker /\ main'.runtime.containers = {}
              /\ main'.trace = <<>> ]_vars

\* A package build that failed for want of the image.
C15_Witness ==
    /\ main.pc = "failed" /\ main.error = ImageNotFound
    /\ main.method = "build_single_packages" /\ main.path = "packages"
    /\ main.docker = NoDocker /\ main.trace = <<>>

\* The events of `trace` other than the log lines, by name.
Outline(trace) ==
    LET steps == SelectSeq(trace, LAMBDA e : e.ev # "log")
    IN  [k \in 1..Len(steps) |-> steps[k].ev]

\* C16: a restricted build constructs its container, sets its mounts, runs
\* the command, reads the log to its end and waits, in that order; on a
\* non-zero exit status the process exits with that status, the object holds
\* no container and retrieval is not entered; the container is held and
\* retrieval entered only after a wait that gave 0.
C16_RestrictedBuildOrder ==
    [][ /\ main.pc # "exited"
        /\ main'.path \in {"packages", "firmware"} =>
            LET trace == main'.trace
                waits == Events(trace, "wait")
            IN  /\ IsPrefix(Outline(trace),
                            <<"new_container", "set_mounts", "run", "logs_end",
                              "wait", "retrieve">>)
                /\ \A k \in 1..Len(trace) :
                      trace[k].ev = "log" =>
                         /\ \E j \in 1..(k-1) : trace[j].ev = "run"
                         /\ \A j \in 1..(k-1) : trace[j].ev # "logs_end"
                /\ main'.pc = "exited" =>
                      /\ Len(waits) = 1 /\ waits[1].n # 0
                      /\ main'.status = waits[1].n
                      /\ main'.handle = 0
                      /\ Events(trace, "retrieve") = <<>>
                /\ (main'.handle # 0 \/ Events(trace, "retrieve") # <<>>) =>
                      /\ Len(waits) = 1 /\ waits[1].n = 0
                      /\ main'.handle = main'.docker.container
                /\ (Len(waits) = 1 /\ waits[1].n # 0) => main'.pc = "exited" ]_vars

\* A firmware build whose container wrote two log lines and ended with
\* status 2: the process exited with 2, the container still in the runtime.
C16_Witness ==
    /\ main.pc = "exited" /\ main.status = 2 /\ main.path = "firmware"
    /\ main.loglines = 2 /\ main.handle = 0
    /\ main.docker.container \in main.runtime.containers

\* The environment assembled for a container, before anything is added.
Assembled == get_env_vars(FALSE, EmptyDict, SdkDefaults, EmptyDict, SdkOverrides)

\* C17: the container of build_single_packages has the assembled
\* environment plus PACKAGES_TO_BUILD, holding the package names given (in
\* order, separated by spaces), and runs the package-build hook, not the
\* builder entrypoint; the container of build_only_firmware has the
\* assembled environment without that variable and runs the entrypoint.
C17_PackagesThroughEnvironment ==
    main.cmd # <<>> =>
        /\ main.method = "build_single_packages" =>
              /\ DOMAIN main.docker.env = (DOMAIN Assembled) \cup {"PACKAGES_TO_BUILD"}
              /\ \A k \in DOMAIN Assembled : main.docker.env[k] = Assembled[k]
              /\ SelectSeq(main.docker.env["PACKAGES_TO_BUILD"],
                           LAMBDA x : x # " ") = main.packages
              /\ Len(main.docker.env["PACKAGES_TO_BUILD"]) = 2 * Len(main.packages) - 1
              /\ main.cmd = <<"hooks", "run_hooks.py", "build_packages">>
        /\ main.method = "build_only_firmware" =>
              /\ main.docker.env = Assembled
              /\ "PACKAGES_TO_BUILD" \notin DOMAIN main.docker.env
              /\ main.cmd = <<"basedir", "builder_entrypoint", "-t", "target",
                              "--cores">>

\* A build of two packages, its container run with both names in
\* PACKAGES_TO_BUILD.
C17_Witness ==
    /\ main.method = "build_single_packages" /\ main.pc = "logs"
    /\ main.packages = <<"p1", "p2">>
    /\ main.docker.env["PACKAGES_TO_BUILD"] = <<"p1", " ", "p2">>
    /\ main.cmd = HookCmd

\* C18: on the interactive-session path the container is constructed in
\* interactive mode with the assembled environment and, once mounted, the
\* mounts of get_mounts, as in a restricted build; what it runs is a shell,
\* in the foreground with a terminal; after the session the container is
\* gone from the runtime exactly when the ephemeral flag was given; no log
\* line is ever requested, nothing is waited for, no container handle is
\* recorded and retrieve_build_artifacts is never entered.
C18_InteractiveSession ==
    main.path = "interactive" =>
        /\ main.pc \notin {"logs", "wait", "retrieve", "exited"}
        /\ \A ev \in {"log", "logs_end", "wait", "retrieve"} :
              Events(main.trace, ev) = <<>>
        /\ main.handle = 0
        /\ main.docker # NoDocker =>
              /\ main.docker.interactive
              /\ main.docker.env = Assembled
              /\ main.docker.container = 0
        /\ main.cmd # <<>> =>
              /\ main.cmd = <<"/bin/bash">>
              /\ main.docker.mounts = get_mounts(main.build_type, <<>>, <<>>).val
              /\ Len(main.docker.cli) = 1
              /\ main.docker.cli[1].it
              /\ main.docker.cli[1].cmd = main.cmd
              /\ main.docker.cli[1].env = Assembled
              /\ main.docker.cli[1].mounts = main.docker.mounts
              /\ main.docker.cli[1].rm <=> main.ephemeral
              /\ 1 \in main.runtime.containers <=> ~main.ephemeral

\* An ephemeral session of a dev build that has ended: mounts were given,
\* the shell ran and the container is gone.
C18_Witness ==
    /\ main.path = "interactive" /\ main.pc = "done"
    /\ main.ephemeral /\ main.build_type = "dev"
    /\ main.docker.cli # <<>> /\ main.docker.cli[1].mounts # <<>>
    /\ main.runtime.containers = {}

\* ------------------------------------ a Docker object in the hands of a caller

\* Chunks of a container's log stream, as characters.
RawLines == {<<"o", "k">>, <<"o", "k", "\n">>}

\* What an attribute of self.container raises while self.container is None,
\* and the end of a generator.
NoContainer   == Raise("AttributeError", "'NoneType' object has no attribute")
StopIteration == Raise("StopIteration", "")

\* str.rstrip
RECURSIVE rstrip(_)
rstrip(str) ==
    IF str # <<>> /\ str[Len(str)] \in {" ", "\n"}
    THEN rstrip(SubSeq(str, 1, Len(str) - 1))
    ELSE str

\* The body of logs up to its loop, without the test of self.interactive.
logs_start_unchecked(d) ==
    IF d.container = 0 THEN NoContainer ELSE ReturnNone

\* The body of Docker.logs up to its loop: what it raises, or nothing.
logs_start(d) ==
    IF d.interactive THEN NoLogs
    ELSE IF d.container = 0 THEN NoContainer
    ELSE ReturnNone

\* Docker(img, env, interactive, ephemeral), just constructed; gen is the
\* state of the generator the caller holds, delivered the lines it was given.
InitDocker ==
    /\ tables = <<EmptyDict>>
    /\ views  = <<[context |-> None, tbl |-> 1]>>
    /\ last   = NoCall
    /\ \E interactive \in BOOLEAN, ephemeral \in BOOLEAN :
          main = [docker |-> Docker("img", EmptyDict, interactive, ephemeral),
                  gen |-> "none", delivered |-> <<>>,
                  call |-> "Docker", result |-> ReturnNone]

Called(m, op, result) == [m EXCEPT !.call = op, !.result = result]

\* Docker.set_mounts
docker_set_mounts ==
    /\ main.docker.mounts = <<>>
    /\ \E mounts \in {<<>>, <<Mount("staging", "basedir")>>} :
          main' = Called([main EXCEPT !.docker = set_mounts(@, mounts)],
                         "set_mounts", Return(mounts))
    /\ UNCHANGED <<tables, views, last>>

\* Docker.run
docker_run ==
    /\ ~main.docker.exited /\ main.docker.container = 0
    /\ \/ /\ main.docker.interactive
          /\ \E rc \in ExitCodes :
                main' = Called([main EXCEPT !.docker = interact(@, ShellCmd, rc)],
                               "run", ReturnNone)
       \/ /\ ~main.docker.interactive
          /\ \/ main' = Called([main EXCEPT !.docker = run_detached(@, 1)],
                               "run", ReturnNone)
             \/ main' = Called(main, "run", DockerError)
    /\ UNCHANGED <<tables, views, last>>

\* Docker.logs(): the function has a yield, so the call runs none of its
\* body and returns a generator.
docker_logs ==
    /\ main' = Called([main EXCEPT !.gen = "created"], "logs",
                      Return("generator"))
    /\ UNCHANGED <<tables, views, last>>

\* One pass of the loop of Docker.logs: a line is yielded, the stream ends
\* or the runtime fails.
logs_loop ==
    \/ /\ Len(main.delivered) < MaxLogLines
       /\ \E log \in RawLines :
             main' = Called([main EXCEPT !.gen = "streaming",
                                         !.delivered = Append(@, rstrip(log))],
                            "next", Return(rstrip(log)))
    \/ main' = Called([main EXCEPT !.gen = "closed"], "next", StopIteration)
    \/ main' = Called([main EXCEPT !.gen = "closed"], "next", DockerError)

\* next() on the generator: a new generator runs the body from its start,
\* a finished one raises StopIteration.
generator_next ==
    /\ main.gen # "none"
    /\ CASE main.gen = "created" ->
              IF logs_start(main.docker) # ReturnNone
              THEN main' = Called([main EXCEPT !.gen = "closed"], "next",
                                  logs_start(main.docker))
              ELSE logs_loop
         [] main.gen = "streaming" -> logs_loop
         [] OTHER -> main' = Called(main, "next", StopIteration)
    /\ UNCHANGED <<tables, views, last>>

\* Docker.wait
docker_wait ==
    /\ IF main.docker.exited
       THEN main' = Called(main, "wait", Return(wait(main.docker, 0)))
       ELSE IF main.docker.container = 0
       THEN main' = Called(main, "wait", NoContainer)
       ELSE \/ \E status \in ExitCodes :
                  main' = Called(main, "wait", Return(wait(main.docker, status)))
            \/ main' = Called(main, "wait", DockerError)
    /\ UNCHANGED <<tables, views, last>>

\* Docker.id
docker_id ==
    /\ main' = Called(main, "id", IF main.docker.container = 0 THEN NoContainer
                                  ELSE Return(main.docker.container))
    /\ UNCHANGED <<tables, views, last>>

NextDocker ==
    \/ docker_set_mounts
    \/ docker_run
    \/ docker_logs
    \/ generator_next
    \/ docker_wait
    \/ docker_id

SpecDocker == InitDocker /\ [][NextDocker]_vars

\* C19, as stated: the call logs() on a container constructed in
\* interactive mode ends in the error.
C19_LogsCallSignalled ==
    main.call = "logs" /\ main.docker.interactive => main.result = NoLogs

\* C19: on a container constructed in interactive mode the call logs()
\* returns a generator and raises nothing; the first line pulled from that
\* generator raises the RuntimeError and ends it; the caller is never given
\* a log line; and a RuntimeError is an outcome only of such a pull, the
\* runtime's own failures being of another class.
C19_LogsSignalledOnFirstPull ==
    [][ /\ main'.call = "logs" => main'.result.kind = "return"
        /\ main.docker.interactive /\ main.gen = "created"
              /\ main'.call = "next" /\ main'.gen # "created" =>
              /\ main'.result = Raise("RuntimeError",
                                      "Interactive containers do not return logs")
              /\ main'.gen = "closed"
        /\ main'.docker.interactive => main'.delivered = <<>>
        /\ main'.result.exc = "RuntimeError" =>
              main'.docker.interactive /\ main'.call = "next"
        /\ DockerError.exc # "RuntimeError" ]_vars

\* An interactive container after its session, the first pull from its
\* logs having raised.
C19_Witness ==
    /\ main.docker.interactive /\ main.docker.exited
    /\ main.call = "next" /\ main.result = NoLogs /\ main.gen = "closed"
    /\ main.delivered = <<>>

\* -------------------------------------------------------- mount assembly

MaxMounts == 2

\* Mounts a configuration can hold: two bindings and an entry with no type.
MountPool == { Mount("cache", "cache"), Mount("work", "work"),
               [source |-> "work", target |-> "work"] }

\* The lists of at most MaxMounts mounts.
MountLists ==
    UNION { [1..n -> MountPool] : n \in 0..MaxMounts }

\* An Sdk object with its build kind and its mount configuration.
InitMounts ==
    /\ tables = <<EmptyDict>>
    /\ views  = <<[context |-> None, tbl |-> 1]>>
    /\ last   = NoCall
    /\ \E build_type \in SdkBuildTypes, mount_defaults \in MountLists,
          mount_overrides \in MountLists :
          main = [pc |-> "ready", build_type |-> build_type,
                  mount_defaults |-> mount_defaults,
                  mount_overrides |-> mount_overrides, result |-> ReturnNone]

\* sdk.get_mounts()
call_get_mounts ==
    /\ main.pc = "ready"
    /\ main' = [main EXCEPT !.pc = "returned",
                   !.result = get_mounts(main.build_type, main.mount_defaults,
                                         main.mount_overrides)]
    /\ UNCHANGED <<tables, views, last>>

NextMounts == call_get_mounts

SpecMounts == InitMounts /\ [][NextMounts]_vars

\* C21: get_mounts returns the empty list for the automated build kind; for
\* the dev kind what it returns is, in this order, the default mounts, the
\* binding of the SDK source tree into the container home, the binding of
\* the host staging directory onto the container base directory, and the
\* override mounts, and it returns a list only when every mount of it is a
\* well-formed 3-tuple.
C21_MountsAssembled ==
    main.pc = "returned" =>
        LET nd  == Len(main.mount_defaults)
            no  == Len(main.mount_overrides)
            all == main.mount_defaults \o main.mount_overrides
        IN  /\ main.build_type = "automated" => main.result = Return(<<>>)
            /\ main.build_type = "dev" =>
                  IF \E i \in 1..Len(all) : DOMAIN all[i] # {"source", "target", "type"}
                  THEN main.result.kind = "raise"
                  ELSE /\ main.result.kind = "return"
                       /\ Len(main.result.val) = nd + no + 2
                       /\ SubSeq(main.result.val, 1, nd) = main.mount_defaults
                       /\ main.result.val[nd + 1] =
                            [source |-> "sdk_path", target |-> "home", type |-> "bind"]
                       /\ main.result.val[nd + 2] =
                            [source |-> "staging", target |-> "basedir", type |-> "bind"]
                       /\ SubSeq(main.result.val, nd + 3, nd + no + 2)
                            = main.mount_overrides

\* A dev build with a default mount and an override mount, both returned
\* around the two bindings.
C21_Witness ==
    /\ main.pc = "returned" /\ main.build_type = "dev"
    /\ main.mount_defaults = <<Mount("cache", "cache")>>
    /\ main.mount_overrides = <<Mount("work", "work")>>
    /\ main.result.kind = "return" /\ Len(main.result.val) = 4

\* ------------------------------------------------ claims on the retrieval

\* C22: retrieve_build_artifacts asks the runtime, at that moment, for the
\* container the object holds, and when it holds none for the image; with
\* the container or the image there it goes on to copy out of it, without
\* it it raises ContainerNotFound or ImageNotFound with nothing copied,
\* nothing appended and the runtime as it was; and what is copied from is
\* the container when one is held, else the image.
C22_RetrievalSourceChecked ==
    [][ /\ (main.pc = "retrieve" /\ main'.pc # "retrieve") =>
              /\ main.handle # 0 =>
                    IF main.handle \in main.runtime.containers
                    THEN main'.pc = "copy"
                    ELSE main'.pc = "failed" /\ main'.error = ContainerNotFound
              /\ main.handle = 0 =>
                    IF main.runtime.image
                    THEN main'.pc = "copy"
                    ELSE main'.pc = "failed" /\ main'.error = ImageNotFound
              /\ main'.archive = <<>> /\ main'.runtime = main.runtime
        /\ main'.copied_from = "container" => main'.handle # 0
        /\ main'.copied_from = "image" => main'.handle = 0
        /\ main'.error \in {ContainerNotFound, ImageNotFound} =>
              main'.archive = <<>> /\ main'.copied_from = "" ]_vars

\* C23: when retrieve_build_artifacts has completed, the archive holds the
\* retrieved tree, then the build log and the timestamp record, and a
\* container that was copied from is no longer in the runtime.
C23_ArchiveComplete ==
    (main.pc = "done" /\ Events(main.trace, "retrieve") # <<>>) =>
        /\ main.archive = <<"artifacts", "buildlog", "timestamp">>
        /\ main.copied_from = "container" =>
              main.handle \notin main.runtime.containers

C33_HandleReleased ==
    /\ (main.copied_from = "container" /\ main.pc \in {"timestamp", "done"})
          => main.handle = 0
    /\ main.error = ContainerNotFound => main.copied_from # "container"

\* ----------------------------------------------------------------- checkout

MaxCheckouts == 3

\* Revisions of the SDK source, and what can be at self.path: nothing, an
\* empty directory, or a working copy at a revision.
Tags  == {"v1", "v2"}
Trees == {"absent", "empty"} \cup Tags

\* git clone <url> --branch <tag> <path>, git -C <path> checkout <tag>
GitClone(tag)  == <<"git", "clone", "--branch", tag>>
GitSwitch(tag) == <<"git", "-C", "checkout", tag>>

\* What the command leaves at the path and its exit status: a clone fills an
\* empty directory, a switch moves a working copy, and neither does anything
\* anywhere else.
git(cmd, tree) ==
    CASE cmd[2] = "clone" /\ tree \in {"absent", "empty"} ->
              [tree |-> cmd[4], rc |-> 0]
      [] cmd[2] = "-C" /\ tree \in Tags -> [tree |-> cmd[4], rc |-> 0]
      [] OTHER -> [tree |-> tree, rc |-> 1]

\* An Sdk object (tag, start_clean) and the file system at self.path, before
\* the first checkout.
InitCheckout ==
    /\ tables = <<EmptyDict>>
    /\ views  = <<[context |-> None, tbl |-> 1]>>
    /\ last   = NoCall
    /\ \E tree \in Trees, tag \in Tags, start_clean \in BOOLEAN :
          main = [pc |-> "ready", tree |-> tree, tag |-> tag,
                  start_clean |-> start_clean, calls |-> 0, before |-> tree,
                  cmd |-> <<>>, ops |-> <<>>, ran_on |-> "", rc |-> 0]

\* checkout(): cmd is the clone, or the switch when the path exists.
checkout_enter ==
    /\ main.pc \in {"ready", "done"} /\ main.calls < MaxCheckouts
    /\ main' = [main EXCEPT
          !.calls = @ + 1, !.before = main.tree, !.ops = <<>>, !.ran_on = "",
          !.rc = 0,
          !.cmd = IF main.tree # "absent" THEN GitSwitch(main.tag)
                  ELSE GitClone(main.tag),
          !.pc = IF main.tree # "absent" /\ main.start_clean THEN "rmtree"
                 ELSE "mkdir"]
    /\ UNCHANGED <<tables, views, last>>

\* shutil.rmtree(pabs)
checkout_rmtree ==
    /\ main.pc = "rmtree"
    /\ main' = [main EXCEPT !.tree = "absent", !.ops = Append(@, "rmtree"),
                            !.pc = "mkdir"]
    /\ UNCHANGED <<tables, views, last>>

\* if not self.path.exists(): self.path.mkdir(parents=True, exist_ok=True)
checkout_mkdir ==
    /\ main.pc = "mkdir"
    /\ main' = IF main.tree = "absent"
               THEN [main EXCEPT !.tree = "empty", !.ops = Append(@, "mkdir"),
                                 !.pc = "run"]
               ELSE [main EXCEPT !.pc = "run"]
    /\ UNCHANGED <<tables, views, last>>

\* utils.run(cmd)
checkout_run ==
    /\ main.pc = "run"
    /\ main' = [main EXCEPT !.ran_on = main.tree,
                            !.tree = git(main.cmd, main.tree).tree,
                            !.rc = git(main.cmd, main.tree).rc,
                            !.ops = Append(@, main.cmd[2]),
                            !.pc = "done"]
    /\ UNCHANGED <<tables, views, last>>

NextCheckout ==
    \/ checkout_enter
    \/ checkout_rmtree
    \/ checkout_mkdir
    \/ checkout_run

SpecCheckout == InitCheckout /\ [][NextCheckout]_vars

\* C24: a checkout that finds a working copy and is to start clean removes
\* the tree and then clones; one that finds a working copy and is not to
\* start clean keeps the tree and switches the revision in place; one that
\* finds nothing clones; and a revision switch is only ever run on a working
\* copy that was there before and was not removed.
C24_CheckoutByTree ==
    main.pc = "done" =>
        /\ (main.before \in Tags /\ main.start_clean) =>
              /\ main.ops = <<"rmtree", "mkdir", "clone">>
              /\ main.cmd = <<"git", "clone", "--branch", main.tag>>
        /\ (main.before \in Tags /\ ~main.start_clean) =>
              /\ main.ops = <<"-C">>
              /\ main.cmd = <<"git", "-C", "checkout", main.tag>>
        /\ main.before = "absent" =>
              /\ main.ops = <<"mkdir", "clone">>
              /\ main.cmd = <<"git", "clone", "--branch", main.tag>>
        /\ main.cmd[2] = "-C" =>
              /\ main.before # "absent" /\ main.ran_on = main.before
              /\ "rmtree" \notin {main.ops[k] : k \in 1..Len(main.ops)}

\* ------------------------------------------------------- the builder's main

\* The per-target directories under tgroot, and the values of -t.
KnownTargets == {"rpi4b"}
TargetArgs   == {None, "rpi4b", "RPI4B", "bogus"}

\* str.lower
lower(target) == IF target = "RPI4B" THEN "rpi4b" ELSE target

\* The values of --build-package (not given, given with no name, given with
\* the name p1) and of --devconfig (a path that is a file, or one that is
\* not).
PackageArgs   == {None, "", "p1"}
DevconfigArgs == {None, "file", "missing"}

\* sys.exit(13)
MissingTargetExit == 13

InvalidCommandLine == Raise("ValueError", "Invalid command line")
DevconfigMisuse    == Raise("ValueError",
                            "Developer configs can only be used for dev containers")
TargetNotSupported == Raise("LookupError", "Target specified not supported")
InvalidJson        == Raise("ValidationError", "")
UnexpectedKeyword  == Raise("TypeError",
                            "get_mounts() got an unexpected keyword argument 'validate'")

\* sanitize_cli that lets every combination through.
sanitize_cli_unchecked(argv) == ReturnNone

\* sanitize_cli
sanitize_cli(argv) ==
    IF argv.verbose /\ argv.quiet THEN InvalidCommandLine ELSE ReturnNone

build_mode(args) ==
    ~(args.populate_staging \/ args.container \/ args.list_targets
        \/ args.validate_jsons)

interactive(args) == args.container

\* args.only_packages is true of a list that is not empty.
only_packages(args) == args.only_packages \notin {None, ""}

restricted_build(args) == only_packages(args) \/ args.only_firmware

sdk_build_type(args) == IF args.devbuild THEN "dev" ELSE "automated"

\* developer_config: --devconfig, else the devconfig path of the current
\* context (registered for the host only), and None unless it is a file.
developer_config(args, inside, devfile) ==
    IF args.devconfig # None THEN args.devconfig = "file"
    ELSE ~inside /\ devfile

\* The guard on developer_config that rejects every kind of use but a dev
\* build or a dev session.
devconfig_guard_strict(args, inside, devfile) ==
    IF developer_config(args, inside, devfile)
         /\ ~((build_mode(args) \/ interactive(args))
                /\ sdk_build_type(args) = "dev")
    THEN DevconfigMisuse ELSE ReturnNone

\* if developer_config and ((build_mode or interactive)
\*                          and sdk_build_type != 'dev'): raise ValueError
devconfig_guard(args, inside, devfile) ==
    IF developer_config(args, inside, devfile)
         /\ ((build_mode(args) \/ interactive(args))
               /\ sdk_build_type(args) # "dev")
    THEN DevconfigMisuse ELSE ReturnNone

\* is_known_target with every name known.
is_known_target_always(target) == TRUE

is_known_target(target) == target \in KnownTargets

\* The lifecycle path the flags select (builder.py:295-308).
lifecycle(args) ==
    IF only_packages(args) THEN "packages"
    ELSE IF args.only_firmware THEN "firmware"
    ELSE IF args.container THEN "interactive"
    ELSE IF args.populate_staging THEN "stage"
    ELSE "build"

\* The process after parse_args: its arguments, whether it runs inside a
\* container, whether developer.json is a file, and nothing done yet.
InitMain ==
    /\ tables = <<EmptyDict>>
    /\ views  = <<[context |-> None, tbl |-> 1]>>
    /\ last   = NoCall
    /\ \E target \in TargetArgs, only_pkgs \in PackageArgs,
          devconfig \in DevconfigArgs,
          flags \in [{"quiet", "verbose", "devbuild", "list_targets",
                      "validate_jsons", "only_firmware", "container",
                      "populate_staging", "inside", "devfile"} -> BOOLEAN] :
          main = [pc |-> "start",
                  args |-> [target |-> target, only_packages |-> only_pkgs,
                            devconfig |-> devconfig, quiet |-> flags["quiet"],
                            verbose |-> flags["verbose"],
                            devbuild |-> flags["devbuild"],
                            list_targets |-> flags["list_targets"],
                            validate_jsons |-> flags["validate_jsons"],
                            only_firmware |-> flags["only_firmware"],
                            container |-> flags["container"],
                            populate_staging |-> flags["populate_staging"]],
                  inside |-> flags["inside"], devfile |-> flags["devfile"],
                  paths |-> FALSE, printed |-> FALSE, cleaned |-> {},
                  overrides |-> FALSE, sdk |-> FALSE, entered |-> "",
                  status |-> 0, error |-> ReturnNone]

Stop(m, exc) == [m EXCEPT !.pc = "failed", !.error = exc, !.status = 1]

\* sanitize_cli(args)
main_sanitize_cli ==
    /\ main.pc = "start"
    /\ main' = IF sanitize_cli(main.args) # ReturnNone
               THEN Stop(main, sanitize_cli(main.args))
               ELSE [main EXCEPT !.pc = "set_paths"]
    /\ UNCHANGED <<tables, views, last>>

\* paths = settings.set_paths(args.target)
main_paths ==
    /\ main.pc = "set_paths"
    /\ main' = [main EXCEPT !.pc = "developer_config", !.paths = TRUE]
    /\ UNCHANGED <<tables, views, last>>

\* developer_config and its guard
main_developer_config ==
    /\ main.pc = "developer_config"
    /\ main' = IF devconfig_guard(main.args, main.inside, main.devfile) # ReturnNone
               THEN Stop(main, DevconfigMisuse)
               ELSE [main EXCEPT !.pc = "mode"]
    /\ UNCHANGED <<tables, views, last>>

\* if args.list_targets / elif args.validate_jsons / else: the target check
main_mode ==
    /\ main.pc = "mode"
    /\ IF main.args.list_targets
       THEN main' = [main EXCEPT !.pc = "done", !.printed = TRUE]
       ELSE IF main.args.validate_jsons
       THEN \/ main' = [main EXCEPT !.pc = "done"]
            \/ main' = Stop(main, InvalidJson)
       ELSE IF main.args.target = None
       THEN main' = [main EXCEPT !.pc = "exited", !.status = MissingTargetExit]
       ELSE IF ~is_known_target(lower(main.args.target))
       THEN main' = [Stop(main, TargetNotSupported) EXCEPT !.printed = TRUE]
       ELSE main' = [main EXCEPT !.pc = "clean"]
    /\ UNCHANGED <<tables, views, last>>

\* clean_up_paths(paths_to_clean)
main_clean ==
    /\ main.pc = "clean"
    /\ main' = [main EXCEPT !.pc = "validate",
                   !.cleaned = IF interactive(main.args) THEN {"tmpdir"}
                               ELSE {"tmpdir", "outdir"}]
    /\ UNCHANGED <<tables, views, last>>

\* utils.validate_json_against_schema of the target spec, the steps and the
\* developer config: they are valid, or the validation raises.
main_validate ==
    /\ main.pc = "validate"
    /\ \/ main' = [main EXCEPT !.pc = "construct"]
       \/ main' = Stop(main, InvalidJson)
    /\ UNCHANGED <<tables, views, last>>

\* confvars (load_env_overrides and load_mount_overrides read the developer
\* config when there is one); sdk = sdk.get_sdk_for(target)(...)
main_construct ==
    /\ main.pc = "construct"
    /\ main' = [main EXCEPT !.pc = "log", !.sdk = TRUE,
                   !.overrides = developer_config(main.args, main.inside,
                                                  main.devfile)]
    /\ UNCHANGED <<tables, views, last>>

\* utils.log(f" ** mounts: {sdk.get_mounts(validate=False)}"): get_mounts
\* takes no argument.
main_log ==
    /\ main.pc = "log"
    /\ main' = Stop(main, UnexpectedKeyword)
    /\ UNCHANGED <<tables, views, last>>

NextMain ==
    \/ main_sanitize_cli
    \/ main_paths
    \/ main_developer_config
    \/ main_mode
    \/ main_clean
    \/ main_validate
    \/ main_construct
    \/ main_log

SpecMain == InitMain /\ [][NextMain]_vars

\* ------------------------------------------------- claims on the startup

C26_DevconfigOnlyForDev ==
    LET args   == main.args
        config == developer_config(args, main.inside, main.devfile)
        dev    == args.devbuild /\ (build_mode(args) \/ args.container)
    IN  /\ main.overrides => args.devbuild
        /\ (config /\ ~dev /\ main.pc \notin {"start", "set_paths",
                                               "developer_config"}) =>
              /\ main.pc = "failed" /\ main.error.exc = "ValueError"
              /\ main.cleaned = {} /\ ~main.sdk /\ main.entered = ""

\* C26, as the guard has it: with a developer config in effect the check
\* after set_paths raises the ValueError exactly when the build kind is not
\* 'dev' and the invocation is an interactive session or has none of
\* --stage, --container, --list-targets and --validate; nothing is cleaned
\* or constructed then.  The developer config is loaded into the build of a
\* 'dev' kind, and of another kind only in an invocation with --stage and
\* without --container.
C26_DevconfigGuard ==
    [][ LET args   == main.args
            config == IF args.devconfig # "None" THEN args.devconfig = "file"
                      ELSE ~main.inside /\ main.devfile
            plain  == ~(args.populate_staging \/ args.container
                          \/ args.list_targets \/ args.validate_jsons)
        IN  /\ main.pc = "developer_config" =>
                  IF config /\ ~args.devbuild /\ (plain \/ args.container)
                  THEN /\ main'.pc = "failed"
                       /\ main'.error.exc = "ValueError"
                       /\ main'.error # InvalidCommandLine
                  ELSE main'.pc = "mode" /\ main'.error = ReturnNone
            /\ main'.error = DevconfigMisuse =>
                  main'.cleaned = {} /\ ~main'.sdk /\ main'.entered = ""
            /\ main'.overrides =>
                  /\ config
                  /\ args.devbuild \/ (args.populate_staging /\ ~args.container)
      ]_vars

\* A firmware-only build of the automated kind with developer.json in the
\* project root: rejected at the guard, with nothing cleaned.
C26_Witness ==
    /\ main.pc = "failed" /\ main.error = DevconfigMisuse
    /\ main.args.only_firmware /\ ~main.args.devbuild /\ main.devfile
    /\ main.args.devconfig = None /\ main.args.target = "rpi4b"
    /\ main.paths /\ main.cleaned = {} /\ ~main.sdk

\* C27: sanitize_cli raises the ValueError exactly when both --quiet and
\* --verbose are given, and then no path was set up, no directory cleaned,
\* no Sdk object constructed and no lifecycle path entered; with any other
\* combination the process goes on to set up the paths.
C27_QuietVerboseExclusive ==
    [][ /\ main.pc = "start" =>
              IF main.args.quiet /\ main.args.verbose
              THEN /\ main'.pc = "failed"
                   /\ main'.error = Raise("ValueError", "Invalid command line")
              ELSE main'.pc = "set_paths" /\ main'.error = ReturnNone
        /\ (main'.args.quiet /\ main'.args.verbose) =>
              /\ ~main'.paths /\ main'.cleaned = {} /\ ~main'.sdk
              /\ main'.entered = "" /\ main'.pc \in {"start", "failed"} ]_vars

\* An invocation with both flags, for a known target: rejected, no path set.
C27_Witness ==
    /\ main.pc = "failed" /\ main.error = InvalidCommandLine
    /\ main.args.quiet /\ main.args.verbose /\ main.args.target = "rpi4b"
    /\ ~main.paths /\ main.cleaned = {}

\* C28: an invocation for a known target that the startup checks and the
\* schema validation accept does not end before it has entered the
\* lifecycle path its flags select.
C28_EntersSelectedPath ==
    LET args == main.args
    IN  (/\ main.pc \in {"failed", "exited", "done"}
         /\ ~args.list_targets /\ ~args.validate_jsons
         /\ lower(args.target) \in KnownTargets
         /\ main.error \notin {InvalidCommandLine, DevconfigMisuse, InvalidJson})
        => main.entered = lifecycle(args)

\* ------------------------------------------------------ the staging directory
\* populate_staging_dir copies from the host tree into the staging tree.  A
\* path is the sequence of its components below the base directory of its
\* context; a tree is a set of files, each a path with a content; the content
\* of a host file is named by its own path.
MaxFiles == 2
MaxCalls == 2
SdkName == "OpenWrt"
StagedTarget == "rpi4b"

\* the labels of set_paths, resolved in the host context
current_specs == <<"spec">>
current_tgroot == current_specs \o <<"targets">>
current_target == current_tgroot \o <<StagedTarget>>
current_tgspec == current_target \o <<"rpi4b_spec.json">>
current_schemas == current_specs \o <<"json_schema">>
current_steps_dir == current_specs \o <<"steps">>
current_common == current_tgroot \o <<"common">>
current_env_defaults == current_common \o <<"specs", "environment.json">>
current_depends == current_specs \o <<"depends">>
current_common_scripts == current_common \o <<"scripts">>
current_common_hooks == current_common_scripts \o <<"hooks">>
current_common_files == current_common \o <<"files">>
current_target_scripts == current_target \o <<"scripts">>
current_target_files == current_target \o <<"files">>

\* the same labels resolved by the clone pinned to the staging context
staging_basedir == <<>>
staging_target == current_target
staging_schemas == current_schemas
staging_steps_dir == current_steps_dir
staging_common == current_common
staging_files == staging_basedir \o <<"files">>
staging_scripts == staging_basedir \o <<"scripts">>
staging_hooks == staging_scripts \o <<"hooks">>
staging_depends == staging_basedir \o <<"depends">>

File(path, content) == [path |-> path, content |-> content]

under(dir, path) ==
    Len(path) > Len(dir) /\ SubSeq(path, 1, Len(dir)) = dir

\* utils.cp_dir: the files below src arrive below dst (below dst/<name of
\* src> without just_contents), replacing what is there under the same path.
cp_dir(src, dst, just_contents, host, tree) ==
    LET base == IF just_contents THEN dst ELSE dst \o <<src[Len(src)]>>
        arrived == {File(base \o SubSeq(p, Len(src) + 1, Len(p)), p) :
                      p \in {q \in host : under(src, q)}}
    IN  {e \in tree : e.path \notin {a.path : a \in arrived}} \cup arrived

\* utils.cp_file into a directory
cp_file(src, dst, host, tree) ==
    IF src \in host
    THEN {e \in tree : e.path # dst \o <<src[Len(src)]>>}
           \cup {File(dst \o <<src[Len(src)]>>, src)}
    ELSE tree

Copy(src, dst, just_contents) ==
    [src |-> src, dst |-> dst, just_contents |-> just_contents]

RECURSIVE cp_all(_, _, _)
cp_all(copies, host, tree) ==
    IF copies = <<>> THEN tree
    ELSE cp_all(Tail(copies), host,
                cp_dir(copies[1].src, copies[1].dst,
                       copies[1].just_contents, host, tree))

\* sdk.py:308-316
common_materials ==
    << Copy(current_common_files \o <<"system_config", "common">>,
            staging_files \o <<"system_config">>, TRUE),
       Copy(current_common_files \o <<"sdk_config", "common">>,
            staging_files \o <<"system_config">>, TRUE),
       Copy(current_common_scripts \o <<"prebuild", "common">>,
            staging_scripts \o <<"prebuild">>, TRUE),
       Copy(current_common_scripts \o <<"build", "common">>,
            staging_scripts \o <<"build">>, TRUE),
       Copy(current_common_scripts \o <<"postbuild", "common">>,
            staging_scripts \o <<"postbuild">>, TRUE),
       Copy(current_common_hooks \o <<"prepare_system", "common">>,
            staging_hooks \o <<"prepare_system">>, TRUE),
       Copy(current_common_hooks \o <<"prepare_sdk", "common">>,
            staging_hooks \o <<"prepare_sdk">>, TRUE),
       Copy(current_common_hooks \o <<"install_configs", "common">>,
            staging_hooks \o <<"install_configs">>, TRUE),
       Copy(current_common_hooks \o <<"build_packages", "common">>,
            staging_hooks \o <<"build_packages">>, TRUE) >>

\* sdk.py:320-328
sdk_materials ==
    << Copy(current_common_files \o <<"system_config", SdkName>>,
            staging_files \o <<"system_config">>, TRUE),
       Copy(current_common_files \o <<"sdk_config", SdkName>>,
            staging_files \o <<"sdk_config">>, TRUE),
       Copy(current_common_scripts \o <<"prebuild", SdkName>>,
            staging_scripts \o <<"prebuild">>, TRUE),
       Copy(current_common_scripts \o <<"build", SdkName>>,
            staging_scripts \o <<"build">>, TRUE),
       Copy(current_common_scripts \o <<"postbuild", SdkName>>,
            staging_scripts \o <<"postbuild">>, TRUE),
       Copy(current_common_hooks \o <<"build_packages", SdkName>>,
            staging_scripts \o <<"hooks", "build_packages">>, TRUE),
       Copy(current_common_hooks \o <<"install_configs", SdkName>>,
            staging_scripts \o <<"hooks", "install_configs">>, TRUE),
       Copy(current_common_hooks \o <<"prepare_system", SdkName>>,
            staging_scripts \o <<"hooks", "prepare_system">>, TRUE),
       Copy(current_common_hooks \o <<"prepare_sdk", SdkName>>,
            staging_scripts \o <<"hooks", "prepare_sdk">>, TRUE) >>

\* sdk.py:331-332
target_materials ==
    << Copy(current_target_files, staging_basedir, FALSE),
       Copy(current_target_scripts, staging_basedir, FALSE) >>

\* The kinds of material and the directory of each kind on either side.
FileKinds == {"system_config", "sdk_config"}
ScriptKinds == {"prebuild", "build", "postbuild"}
HookKinds == {"prepare_system", "prepare_sdk", "install_configs",
              "build_packages"}
Kinds == FileKinds \cup ScriptKinds \cup HookKinds

StagingDirOf(kind) ==
    IF kind \in FileKinds THEN staging_files \o <<kind>>
    ELSE IF kind \in ScriptKinds THEN staging_scripts \o <<kind>>
    ELSE staging_hooks \o <<kind>>

SharedDirOf(kind, layer) ==
    IF kind \in FileKinds THEN current_common_files \o <<kind, layer>>
    ELSE IF kind \in ScriptKinds THEN current_common_scripts \o <<kind, layer>>
    ELSE current_common_hooks \o <<kind, layer>>

TargetDirOf(kind) ==
    IF kind \in FileKinds THEN current_target_files \o <<kind>>
    ELSE IF kind \in ScriptKinds THEN current_target_scripts \o <<kind>>
    ELSE current_target_scripts \o <<"hooks", kind>>

\* The files every project tree has, and the materials a tree may have.
BareFiles ==
    { current_tgspec, current_env_defaults,
      current_common_hooks \o <<"run_hooks.py">>,
      current_depends \o <<"packages.txt">>,
      current_schemas \o <<"target.json">>,
      current_steps_dir \o <<"dev_build.json">>,
      <<"builder.py">> }

Materials ==
    {SharedDirOf(k, l) \o <<"f">> : k \in Kinds, l \in {"common", SdkName}}
      \cup {TargetDirOf(k) \o <<"f">> : k \in Kinds}

\* The sets of at most n materials.
RECURSIVE AtMost(_)
AtMost(n) ==
    IF n = 0 THEN {{}}
    ELSE AtMost(n - 1) \cup {c \cup {m} : c \in AtMost(n - 1), m \in Materials}

Leftovers ==
    { {}, {File(<<"old">>, <<"stale">>)},
      {File(staging_files \o <<"system_config", "f">>, <<"stale">>)} }

InitStaging ==
    /\ tables = <<EmptyDict>>
    /\ views = <<[context |-> None, tbl |-> 1]>>
    /\ last = NoCall
    /\ \E chosen \in AtMost(MaxFiles), left \in Leftovers :
         /\ main = [pc |-> "idle", host |-> BareFiles \cup chosen,
                    staging |-> left, written |-> {}, calls |-> 0,
                    first |-> {}]

\* The files a step brought, with the layer that brought them.
Brought(layer, before, after) ==
    {[path |-> e.path, content |-> e.content, layer |-> layer] :
       e \in {a \in after : a \notin before}}

\* sdk.py:296-297
populate_recreate ==
    /\ main.pc \in {"idle", "done"}
    /\ main.calls < MaxCalls
    /\ main' = [main EXCEPT !.pc = "bare", !.staging = {}, !.written = {}]
    /\ UNCHANGED <<tables, views, last>>

\* sdk.py:300-305
populate_bare ==
    /\ main.pc = "bare"
    /\ LET h == main.host
           t1 == cp_dir(current_depends, staging_depends, TRUE, h,
                        main.staging)
           t2 == cp_dir(current_schemas, staging_schemas, TRUE, h, t1)
           t3 == cp_dir(current_steps_dir, staging_steps_dir, TRUE, h, t2)
           t4 == cp_file(current_tgspec, staging_target, h, t3)
           t5 == cp_file(current_env_defaults, staging_common \o <<"specs">>,
                         h, t4)
           t6 == cp_file(current_common_hooks \o <<"run_hooks.py">>,
                         staging_hooks, h, t5)
       IN  main' = [main EXCEPT !.pc = "common", !.staging = t6]
    /\ UNCHANGED <<tables, views, last>>

\* sdk.py:308-316
populate_common ==
    /\ main.pc = "common"
    /\ LET after == cp_all(common_materials, main.host, main.staging)
       IN  main' = [main EXCEPT
                      !.pc = "sdk", !.staging = after,
                      !.written = @ \cup Brought(1, main.staging, after)]
    /\ UNCHANGED <<tables, views, last>>

\* sdk.py:320-328
populate_sdk ==
    /\ main.pc = "sdk"
    /\ LET after == cp_all(sdk_materials, main.host, main.staging)
       IN  main' = [main EXCEPT
                      !.pc = "target", !.staging = after,
                      !.written = @ \cup Brought(2, main.staging, after)]
    /\ UNCHANGED <<tables, views, last>>

\* sdk.py:331-332
populate_target ==
    /\ main.pc = "target"
    /\ LET after == cp_all(target_materials, main.host, main.staging)
       IN  main' = [main EXCEPT
                      !.pc = "entry", !.staging = after,
                      !.written = @ \cup Brought(3, main.staging, after)]
    /\ UNCHANGED <<tables, views, last>>

\* sdk.py:334-335
populate_entry ==
    /\ main.pc = "entry"
    /\ LET after == cp_file(<<"builder.py">>, staging_basedir, main.host,
                            main.staging)
       IN  main' = [main EXCEPT
                      !.pc = "done", !.staging = after,
                      !.calls = @ + 1,
                      !.first = IF main.calls = 0 THEN after ELSE @]
    /\ UNCHANGED <<tables, views, last>>

NextStaging ==
    \/ populate_recreate
    \/ populate_bare
    \/ populate_common
    \/ populate_sdk
    \/ populate_target
    \/ populate_entry

SpecStaging == InitStaging /\ [][NextStaging]_vars

\* ------------------------------------------- claims on the staging directory
\* Nothing of an earlier staging directory is left: every staged file is a
\* copy of a host file.
Recreated == \A e \in main.staging : e.content \in main.host

\* Of the layers that brought a path, the last in the order common,
\* SDK-specific, target-specific is the one whose content is staged.
LastLayerWins ==
    \A e \in main.staging :
       LET ws == {w \in main.written : w.path = e.path}
       IN  ws # {} =>
             \E w \in ws : /\ w.content = e.content
                           /\ \A v \in ws : v.layer <= w.layer

\* Every common or SDK-specific file was brought to the staging directory
\* of its own kind.
SameKind ==
    \A k \in Kinds, l \in {"common", SdkName} :
       \A p \in {q \in main.host : under(SharedDirOf(k, l), q)} :
          \E w \in main.written :
             /\ w.content = p
             /\ w.path = StagingDirOf(k) \o <<p[Len(p)]>>

\* C30: when populate_staging_dir has returned, nothing of an earlier
\* staging directory is left, every path brought by more than one layer holds
\* the content of the last layer in the order common, SDK-specific,
\* target-specific, every common or SDK-specific kind was brought to the
\* staging directory of the same kind, and a second call on unchanged
\* sources leaves the tree the first call left.
C30_StagingTree ==
    main.pc = "done" =>
       /\ Recreated
       /\ LastLayerWins
       /\ SameKind
       /\ main.staging = main.first

====
